---- MODULE Spec2Model ----
(***************************************************************************)
(* The on-disk cache of ScraperFC: CacheManager (cache_manager.py).        *)
(*                                                                         *)
(* The state is the cache directory (the directories and the files below   *)
(* the cache root), the wall clock, and the record of the last call with   *)
(* what it returned or raised.  One action per public method; where the   *)
(* calls of several callers overlap, a save is two steps: its open() and   *)
(* its write.                                                              *)
(***************************************************************************)
EXTENDS Integers, Sequences, FiniteSets, TLC

VARIABLES
    dirs,   \* the directories that exist below the cache root (relative paths)
    files,  \* path -> [content, mtime] for every file below the cache root
    now,    \* datetime.now(), in whole units of time
    last,   \* the last call: its name, its arguments and its outcome
    saving, \* caller -> the save it is in, between its open() and its close
    unproxied_start_time,    \* botasaurus_get: the first unproxied request
                             \* of the window, or None
    unproxied_lockout_until, \* botasaurus_get: the end of the lockout, or None
    remote  \* the remote API: the pages of matches it holds for the season

vars == <<dirs, files, now, last, saving,
          unproxied_start_time, unproxied_lockout_until, remote>>

\* the module-level state of botasaurus_get
tracking == <<unproxied_start_time, unproxied_lockout_until>>

\* The clock stops here.
MaxTime == 3

\* The longest key handed to the path resolver, in tokens.
MaxKeyLen == 5

\* The most pages of matches the Sofascore API holds for a season.
MaxServerPages == 1

\* The clock of the requests stops here, in hours.
MaxHours == 4

\* The time from which the remote API reports the match finished.
MatchEnds == 1

-----------------------------------------------------------------------------
(* Python values.  Every value carries its type in `kind`.                 *)

PyNone == [kind |-> "none"]
PyInt(n) == [kind |-> "int", val |-> n]
PyStr(s) == [kind |-> "str", val |-> s]
PyBool(b) == [kind |-> "bool", val |-> b]
PyList(s) == [kind |-> "list", val |-> s]
PyTuple(s) == [kind |-> "tuple", val |-> s]
\* a dict is its set of <<key, value>> items
PyDict(items) == [kind |-> "dict", val |-> items]
\* datetime.timedelta(seconds=n)
Timedelta(n) == [kind |-> "timedelta", val |-> n]

\* bool(v)
Truthy(v) ==
    CASE v.kind = "none" -> FALSE
      [] v.kind = "bool" -> v.val
      [] v.kind = "int" -> v.val # 0
      [] v.kind = "timedelta" -> v.val # 0
      [] v.kind = "str" -> v.val # ""
      [] v.kind \in {"list", "tuple"} -> v.val # <<>>
      [] v.kind = "dict" -> v.val # {}

\* len(v) is defined
HasLen(v) == v.kind \in {"str", "list", "tuple", "dict"}

\* isinstance(v, dict)
IsDict(v) == v.kind = "dict"

\* k in d
HasKey(d, k) == \E item \in d.val : item[1] = k

\* d[k]
Item(d, k) == (CHOOSE item \in d.val : item[1] = k)[2]

\* d.get(k, default)
DictGet(d, k, default) == IF HasKey(d, k) THEN Item(d, k) ELSE default

\* The outcome of a call: a returned value or a raised exception.
Return(v) == [kind |-> "return", val |-> v]
Raise(e) == [kind |-> "raise", exc |-> e]

-----------------------------------------------------------------------------
(* File contents.  A file holds bytes that are no text at all, text that   *)
(* is no JSON document, or a JSON document.                                *)

NotText == [kind |-> "bytes"]
NotJson == [kind |-> "malformed"]
JNull == [kind |-> "null"]
JNumber(n) == [kind |-> "number", val |-> n]
JString(s) == [kind |-> "string", val |-> s]
JArray(s) == [kind |-> "array", val |-> s]
JObject(members) == [kind |-> "object", val |-> members]

\* json.dump(v, f): lists and tuples both become arrays
RECURSIVE JsonDump(_)
JsonDump(v) ==
    CASE v.kind = "none" -> JNull
      [] v.kind = "int" -> JNumber(v.val)
      [] v.kind = "str" -> JString(v.val)
      [] v.kind \in {"list", "tuple"} ->
            JArray([i \in 1..Len(v.val) |-> JsonDump(v.val[i])])
      [] v.kind = "dict" ->
            JObject({<<item[1], JsonDump(item[2])>> : item \in v.val})

\* json.load(f) of a JSON document: arrays become lists
RECURSIVE JsonLoad(_)
JsonLoad(j) ==
    CASE j.kind = "null" -> PyNone
      [] j.kind = "number" -> PyInt(j.val)
      [] j.kind = "string" -> PyStr(j.val)
      [] j.kind = "array" ->
            PyList([i \in 1..Len(j.val) |-> JsonLoad(j.val[i])])
      [] j.kind = "object" ->
            PyDict({<<m[1], JsonLoad(m[2])>> : m \in j.val})

-----------------------------------------------------------------------------
(* Strings that the path resolver takes apart are sequences of tokens: a   *)
(* token is "/", "_", or a run of other characters.                        *)

\* s.replace(a, b) for one-character a and b
Replace(s, a, b) == [i \in 1..Len(s) |-> IF s[i] = a THEN b ELSE s[i]]

\* s.split(sep)
RECURSIVE Split(_, _)
Split(s, sep) ==
    IF \A i \in 1..Len(s) : s[i] # sep
    THEN <<s>>
    ELSE LET i == CHOOSE j \in 1..Len(s) :
                      s[j] = sep /\ \A h \in 1..(j - 1) : s[h] # sep
         IN  <<SubSeq(s, 1, i - 1)>> \o Split(SubSeq(s, i + 1, Len(s)), sep)

\* str(n) for a page number
Str(n) == <<ToString(n)>>

\* pathlib: base / name (an empty or "." name adds nothing)
PathJoin(base, name) ==
    IF name = <<>> \/ name = <<".">> THEN base ELSE Append(base, name)

\* Path.mkdir(parents=True, exist_ok=True): the directory and its ancestors
Mkdir(dir) == {SubSeq(dir, 1, i) : i \in 1..Len(dir)}

-----------------------------------------------------------------------------
(* CacheManager                                                            *)

\* _get_cache_path with every key treated as a flat key
_get_cache_path_flat(cache_type, key) ==
    [path |-> PathJoin(PathJoin(<<>>, cache_type),
                       Replace(key, "/", "_") \o <<".json">>),
     made |-> Mkdir(PathJoin(<<>>, cache_type))]

\* _get_cache_path with the '/' of a flat key left in the file name
_get_cache_path_unescaped(cache_type, key) ==
    LET parts == Split(key, "/")
    IN  IF cache_type = <<"match_dicts">> /\ Len(parts) >= 3
        THEN LET cache_dir ==
                     PathJoin(PathJoin(PathJoin(<<>>, cache_type), parts[1]),
                              parts[2])
             IN  [path |-> PathJoin(cache_dir, parts[3] \o <<".json">>),
                  made |-> Mkdir(cache_dir)]
        ELSE [path |-> PathJoin(PathJoin(<<>>, cache_type), key \o <<".json">>),
              made |-> Mkdir(PathJoin(<<>>, cache_type))]

\* _get_cache_path(cache_type, key): the path it returns, relative to the
\* cache root, and the directories its mkdir calls make sure exist
_get_cache_path(cache_type, key) ==
    LET parts == Split(key, "/")
        safe_key == Replace(key, "/", "_")
    IN  IF cache_type = <<"match_dicts">> /\ Len(parts) >= 3
        THEN LET league == parts[1]
                 year == Replace(parts[2], "/", "_")
                 page == parts[3]
                 cache_dir ==
                     PathJoin(PathJoin(PathJoin(<<>>, cache_type), league), year)
             IN  [path |-> PathJoin(cache_dir, page \o <<".json">>),
                  made |-> Mkdir(cache_dir)]
        ELSE LET cache_dir == PathJoin(<<>>, cache_type)
             IN  [path |-> PathJoin(cache_dir, safe_key \o <<".json">>),
                  made |-> Mkdir(cache_dir)]

\* _is_cache_valid with the age compared by <= (a file of age d still valid)
_is_cache_valid_inclusive(cache_path, cache_duration) ==
    IF cache_path \notin DOMAIN files
    THEN FALSE
    ELSE IF cache_duration = PyNone
         THEN TRUE
         ELSE now - files[cache_path].mtime <= cache_duration.val

\* _is_cache_valid with the duration tested for truth (`if not cache_duration`)
_is_cache_valid_falsy(cache_path, cache_duration) ==
    IF cache_path \notin DOMAIN files
    THEN FALSE
    ELSE IF ~Truthy(cache_duration)
         THEN TRUE
         ELSE now - files[cache_path].mtime < cache_duration.val

\* _is_cache_valid with the comparison turned round (a file valid once old)
_is_cache_valid_reversed(cache_path, cache_duration) ==
    IF cache_path \notin DOMAIN files
    THEN FALSE
    ELSE IF cache_duration = PyNone
         THEN TRUE
         ELSE now - files[cache_path].mtime >= cache_duration.val

\* _is_cache_valid(cache_path, cache_duration)
_is_cache_valid(cache_path, cache_duration) ==
    IF cache_path \notin DOMAIN files
    THEN FALSE
    ELSE IF cache_duration = PyNone
         THEN TRUE
         ELSE now - files[cache_path].mtime < cache_duration.val

\* IsLegacy testing only for a mapping
IsLegacyNotMapping(cache_data) == ~IsDict(cache_data)

\* _get: the decoded value is of the format before the envelope
IsLegacy(cache_data) == ~IsDict(cache_data) \/ ~HasKey(cache_data, "data")

\* Expired with no envelope ever taken for expired
ExpiredNever(cache_data) == FALSE

\* Expired with the age compared by >=
ExpiredAtEqual(cache_data) ==
    now - Item(cache_data, "timestamp").val >= Item(cache_data, "duration").val

\* _get: the envelope is older than its own duration
Expired(cache_data) ==
    now - Item(cache_data, "timestamp").val > Item(cache_data, "duration").val

\* Payload with an empty payload taken for none
PayloadOrNone(cache_data) ==
    IF Truthy(DictGet(cache_data, "data", PyNone))
    THEN DictGet(cache_data, "data", PyNone)
    ELSE PyNone

\* _get: the payload it returns
Payload(cache_data) == DictGet(cache_data, "data", PyNone)

\* The part of _get after json.load: what it does with the decoded value.
Decoded(cache_data) ==
    IF IsLegacy(cache_data)
    THEN Return(cache_data)
    ELSE IF DictGet(cache_data, "duration", PyNone) # PyNone
              /\ ~HasKey(cache_data, "timestamp")
         THEN Raise("KeyError")
         ELSE IF DictGet(cache_data, "duration", PyNone) # PyNone
                   /\ (Item(cache_data, "timestamp").kind # "int"
                       \/ Item(cache_data, "duration").kind # "int")
              THEN Raise("TypeError")
              ELSE IF DictGet(cache_data, "duration", PyNone) # PyNone
                        /\ Expired(cache_data)
                   THEN Return(PyNone)
                   ELSE IF ~HasKey(cache_data, "data")
                        THEN Raise("KeyError")
                        ELSE IF ~HasLen(Item(cache_data, "data"))
                             THEN Raise("TypeError")
                             ELSE Return(Payload(cache_data))

\* _get(cache_type, key, cache_duration): what the call returns or raises
_get(cache_type, key, cache_duration) ==
    LET cache_path == _get_cache_path(cache_type, key).path
    IN  IF _is_cache_valid(cache_path, cache_duration)
        THEN LET content == files[cache_path].content
             IN  CASE content.kind = "bytes" -> Raise("UnicodeDecodeError")
                   [] content.kind = "malformed" -> Return(PyNone)
                   [] OTHER -> Decoded(JsonLoad(content))
        ELSE Return(PyNone)

\* Envelope in the format before the envelope: the bare payload
EnvelopeBare(data, cache_duration, url) == data

\* The mapping _save builds and hands to json.dump.
Envelope(data, cache_duration, url) ==
    PyDict({<<"data", data>>,
            <<"timestamp", PyInt(now)>>,
            <<"duration", IF Truthy(cache_duration)
                          THEN PyInt(cache_duration.val)
                          ELSE PyNone>>,
            <<"source_url", url>>})

\* _save(cache_type, key, data, cache_duration, url): the files after it
_save(cache_type, key, data, cache_duration, url) ==
    LET cache_path == _get_cache_path(cache_type, key).path
    IN  (cache_path :> [content |-> JsonDump(Envelope(data, cache_duration, url)),
                        mtime |-> now]) @@ files

\* MatchDictsKey with the year left as it is
MatchDictsKeyRaw(league, year, page) ==
    league \o <<"/">> \o year \o <<"/">> \o Str(page)

\* The key get_match_dicts and save_match_dicts build.
MatchDictsKey(league, year, page) ==
    league \o <<"/">> \o Replace(year, "/", "_") \o <<"/">> \o Str(page)

\* get_match_dict(match_id, cache_duration)
get_match_dict(match_id, cache_duration) ==
    _get(<<"match_dict">>, match_id, cache_duration)

\* get_match_dicts(league, year, page, cache_duration)
get_match_dicts(league, year, page, cache_duration) ==
    _get(<<"match_dicts">>, MatchDictsKey(league, year, page), cache_duration)

\* is_match_finished from the payload get_match_dict handed it on
finished_of(match_data) ==
    IF ~Truthy(match_data)
    THEN Return(PyBool(FALSE))
    ELSE IF ~HasLen(match_data)
         THEN Raise("TypeError")
         ELSE IF ~IsDict(match_data)
              THEN Raise("AttributeError")
              ELSE IF ~IsDict(DictGet(match_data, "status", PyDict({})))
                   THEN Raise("AttributeError")
                   ELSE Return(PyBool(
                       DictGet(DictGet(match_data, "status", PyDict({})),
                               "type", PyNone) = PyStr("finished")))

\* is_match_finished(match_id): what the call returns or raises
is_match_finished(match_id) ==
    LET got == get_match_dict(match_id, PyNone)
    IN  IF got.kind = "raise" THEN got ELSE finished_of(got.val)

-----------------------------------------------------------------------------
(* Filesystem failures.  A call may find one of its filesystem operations  *)
(* failing with an OSError (permission denied, a file in the place of a    *)
(* directory, a name too long, no space left).                             *)

\* _get where `fault` names the operation that fails: the mkdir of
\* _get_cache_path and the exists()/stat() of _is_cache_valid are outside the
\* try, open() and the read inside it
_get_failing(cache_type, key, cache_duration, fault) ==
    LET cache_path == _get_cache_path(cache_type, key).path
    IN  CASE fault = "mkdir" -> Raise("OSError")
          [] fault = "stat" -> Raise("OSError")
          [] fault \in {"open", "read"}
                 /\ _is_cache_valid(cache_path, cache_duration) -> Return(PyNone)
          [] OTHER -> _get(cache_type, key, cache_duration)

\* _save_failing with a failed open() logged and not raised again
_save_swallowing(cache_type, key, data, cache_duration, url, fault) ==
    LET resolved == _get_cache_path(cache_type, key)
    IN  CASE fault = "mkdir" ->
                 [files |-> files, made |-> {}, ret |-> Raise("OSError")]
          [] fault = "open" ->
                 [files |-> files, made |-> resolved.made, ret |-> Return(PyNone)]
          [] fault = "write" ->
                 [files |-> (resolved.path :> [content |-> NotJson, mtime |-> now])
                                @@ files,
                  made |-> resolved.made, ret |-> Raise("OSError")]
          [] OTHER ->
                 [files |-> _save(cache_type, key, data, cache_duration, url),
                  made |-> resolved.made, ret |-> Return(PyNone)]

\* _save where `fault` names the operation that fails: the files after the
\* call, the directories it made, and what it returns or raises.  A write
\* that fails leaves the file open() truncated, cut short.
_save_failing(cache_type, key, data, cache_duration, url, fault) ==
    LET resolved == _get_cache_path(cache_type, key)
    IN  CASE fault = "mkdir" ->
                 [files |-> files, made |-> {}, ret |-> Raise("OSError")]
          [] fault = "open" ->
                 [files |-> files, made |-> resolved.made, ret |-> Raise("OSError")]
          [] fault = "write" ->
                 [files |-> (resolved.path :> [content |-> NotJson, mtime |-> now])
                                @@ files,
                  made |-> resolved.made, ret |-> Raise("OSError")]
          [] OTHER ->
                 [files |-> _save(cache_type, key, data, cache_duration, url),
                  made |-> resolved.made, ret |-> Return(PyNone)]

-----------------------------------------------------------------------------
(* The text of a file while saves write it.  _save opens the file with     *)
(* open(cache_path, "w"), which empties it, and json.dump writes the text   *)
(* from the file's beginning when the file object flushes; nothing is      *)
(* written to a temporary file and renamed.                                *)

\* a file whose text is no JSON document, of length n (empty for n = 0)
Cut(n) == [kind |-> "malformed", len |-> n]

\* The length of the text json.dump writes for a document, counted in its
\* tokens: brackets, keys, scalars.
RECURSIVE TextLen(_), MembersLen(_)
MembersLen(members) ==
    IF members = {}
    THEN 0
    ELSE LET m == CHOOSE x \in members : TRUE
         IN  1 + TextLen(m[2]) + MembersLen(members \ {m})

TextLen(j) ==
    CASE j.kind \in {"null", "number", "string"} -> 1
      [] j.kind = "array" ->
            2 + MembersLen({<<i, j.val[i]>> : i \in DOMAIN j.val})
      [] j.kind = "object" -> 2 + MembersLen(j.val)

\* the length of what a file holds
ContentLen(content) ==
    IF content.kind = "malformed" THEN content.len ELSE TextLen(content)

\* The file after `text` is written from its beginning over what it holds:
\* the text alone when it covers what was there, else the text followed by
\* the rest of what was there, which is no JSON document.
Overwritten(text, held) ==
    IF ContentLen(held) <= TextLen(text) THEN text ELSE Cut(ContentLen(held))

-----------------------------------------------------------------------------
(* Sofascore (sofascore.py): the client of the cache.  One unit of time is *)
(* one day, the max-age the client hands to the cache.  What the network   *)
(* answers is an input of each call.                                       *)

\* the url a payload was fetched from
Url == PyStr("u")

\* the file a save writes now
Written(data, cache_duration, url) ==
    [content |-> JsonDump(Envelope(data, cache_duration, url)), mtime |-> now]

\* get_valid_seasons(league): the seasons, or the error raised, and the file
\* it saves; `response` is what the API answers if it is asked
SeasonsOf(league) == PyDict({<<"22/23", PyInt(1)>>})
get_valid_seasons(league, response) ==
    LET resolved == _get_cache_path(<<"valid_seasons">>, league)
        cached_data == _get(<<"valid_seasons">>, league, Timedelta(30))
    IN  IF cached_data.kind = "return" /\ Truthy(cached_data.val)
        THEN [ret |-> cached_data, requested |-> FALSE, saved |-> <<>>,
              made |-> resolved.made]
        ELSE IF cached_data.kind = "raise"
             THEN [ret |-> cached_data, requested |-> FALSE, saved |-> <<>>,
                   made |-> resolved.made]
             ELSE IF response = 200
                  THEN [ret |-> Return(SeasonsOf(league)), requested |-> TRUE,
                        saved |-> resolved.path
                                      :> Written(SeasonsOf(league), PyNone, Url),
                        made |-> resolved.made]
                  ELSE [ret |-> Raise("ValueError"), requested |-> TRUE,
                        saved |-> <<>>, made |-> resolved.made]

\* the events of page i of a season
PageEvents(i) == PyList(<<PyDict({<<"id", PyInt(i)>>})>>)

\* what the API answers to the request for page i: the events of the page
\* (none for the pages in `empty`) while i is below the number of pages it
\* holds, then `past` (404, or 500 for the statuses on which botasaurus_get
\* raises)
Response(server, i) ==
    IF i < server.pages
    THEN [status |-> 200,
          events |-> IF i \in server.empty THEN PyList(<<>>) ELSE PageEvents(i)]
    ELSE [status |-> server.past]

\* IsCached with the cached page tested for truth (`if cached_data:`)
IsCachedTruthy(cached_data) == Truthy(cached_data)

\* get_match_dicts: `cached_data is not None`
IsCached(cached_data) == cached_data # PyNone

\* get_match_dicts: the cached page is the mark of the end of the pages
IsEndMark(cached_data) == cached_data.kind = "list" /\ Len(cached_data.val) = 0

\* The loop of get_match_dicts from page i on: the pages it goes through
\* (what the cache returned, whether the page was requested, what was got and
\* what was saved), and whether the loop ended by an error raised.
RECURSIVE Paginate(_, _, _, _)
Paginate(league, year, server, i) ==
    LET cached_data == get_match_dicts(league, year, i, Timedelta(1)).val
        response == Response(server, i)
        step == [page |-> i, cached |-> cached_data]
    IN  IF IsCached(cached_data)
        THEN IF IsEndMark(cached_data)
             THEN [steps |-> <<step @@ [fetched |-> FALSE, got |-> <<>>,
                                        saved |-> <<>>]>>,
                   raised |-> FALSE]
             ELSE LET rest == Paginate(league, year, server, i + 1)
                  IN  [steps |-> <<step @@ [fetched |-> FALSE,
                                            got |-> cached_data.val,
                                            saved |-> <<>>]>> \o rest.steps,
                       raised |-> rest.raised]
        ELSE CASE response.status = 404 ->
                      [steps |-> <<step @@ [fetched |-> TRUE, got |-> <<>>,
                                            saved |-> <<PyList(<<>>), Timedelta(1)>>]>>,
                       raised |-> FALSE]
               [] response.status = 200 ->
                      LET rest == Paginate(league, year, server, i + 1)
                      IN  [steps |-> <<step @@ [fetched |-> TRUE,
                                                got |-> response.events.val,
                                                saved |-> <<response.events, PyNone>>]>>
                                         \o rest.steps,
                           raised |-> rest.raised]
               [] OTHER ->
                      [steps |-> <<step @@ [fetched |-> TRUE, got |-> <<>>,
                                            saved |-> <<>>]>>,
                       raised |-> TRUE]

\* The loop of get_match_dicts with use_cache=False from page i on: every
\* page is requested, nothing is read from the cache and nothing is saved.
RECURSIVE PaginateUncached(_, _)
PaginateUncached(server, i) ==
    LET response == Response(server, i)
        step == [page |-> i, cached |-> PyNone]
    IN  CASE response.status = 404 ->
                 [steps |-> <<step @@ [fetched |-> TRUE, got |-> <<>>,
                                       saved |-> <<>>]>>,
                  raised |-> FALSE]
          [] response.status = 200 ->
                 LET rest == PaginateUncached(server, i + 1)
                 IN  [steps |-> <<step @@ [fetched |-> TRUE,
                                           got |-> response.events.val,
                                           saved |-> <<>>]>>
                                    \o rest.steps,
                      raised |-> rest.raised]
          [] OTHER ->
                 [steps |-> <<step @@ [fetched |-> TRUE, got |-> <<>>,
                                       saved |-> <<>>]>>,
                  raised |-> TRUE]

\* Sofascore.get_match_dict with the payload fetched not saved
Sofascore_get_match_dict_unsaved(match_id, response) ==
    LET resolved == _get_cache_path(<<"match_dict">>, match_id)
        cached_data == get_match_dict(match_id, PyNone)
    IN  IF cached_data.kind = "raise" \/ Truthy(cached_data.val)
        THEN [ret |-> cached_data, requested |-> FALSE, saved |-> <<>>,
              made |-> resolved.made]
        ELSE IF response.status = 200
             THEN [ret |-> Return(response.event), requested |-> TRUE,
                   saved |-> <<>>, made |-> resolved.made]
             ELSE [ret |-> Raise("ValueError"), requested |-> TRUE,
                   saved |-> <<>>, made |-> resolved.made]

\* Sofascore.get_match_dict(match) with caching on: what it returns or
\* raises, whether it asked the API, and the file it saved; `response` is
\* what the API answers if it is asked
Sofascore_get_match_dict(match_id, response) ==
    LET resolved == _get_cache_path(<<"match_dict">>, match_id)
        cached_data == get_match_dict(match_id, PyNone)
    IN  IF cached_data.kind = "raise" \/ Truthy(cached_data.val)
        THEN [ret |-> cached_data, requested |-> FALSE, saved |-> <<>>,
              made |-> resolved.made]
        ELSE IF response.status = 200
             THEN [ret |-> Return(response.event), requested |-> TRUE,
                   saved |-> resolved.path :> Written(response.event, PyNone, Url),
                   made |-> resolved.made]
             ELSE [ret |-> Raise("ValueError"), requested |-> TRUE,
                   saved |-> <<>>, made |-> resolved.made]

\* the statistics of a match as the API sends them: a list of periods
StatsData == PyList(<<PyDict({<<"period", PyStr("ALL")>>})>>)

\* Sofascore.scrape_team_match_stats(match) with caching on: what it returns
\* (the statistics its DataFrame is built from) or raises, the requests it
\* made and the files it saved; `match` is the outcome of its call of
\* self.get_match_dict, and `response` is what the API answers to the
\* request for the statistics
scrape_team_match_stats(match_id, match, response) ==
    LET resolved == _get_cache_path(<<"match_stats">>, match_id)
        cached_data == _get(<<"match_stats">>, match_id, PyNone)
        is_finished == finished_of(JsonLoad(JsonDump(match.ret.val)))
        made == match.made \cup resolved.made
    IN  IF match.ret.kind = "raise"
        THEN [ret |-> match.ret, requested |-> FALSE, saved |-> <<>>,
              made |-> match.made, finished |-> FALSE]
        ELSE IF cached_data.kind = "raise"
        THEN [ret |-> cached_data, requested |-> FALSE, saved |-> match.saved,
              made |-> made, finished |-> FALSE]
        ELSE IF cached_data.val # PyNone
        THEN [ret |-> cached_data, requested |-> FALSE, saved |-> match.saved,
              made |-> made, finished |-> FALSE]
        ELSE CASE response = 200 ->
                      [ret |-> Return(StatsData), requested |-> TRUE,
                       saved |-> IF is_finished = Return(PyBool(TRUE))
                                 THEN (resolved.path
                                           :> Written(StatsData, PyNone, Url))
                                          @@ match.saved
                                 ELSE match.saved,
                       made |-> made,
                       finished |-> is_finished = Return(PyBool(TRUE))]
               [] response = 404 ->
                      [ret |-> Return(PyList(<<>>)), requested |-> TRUE,
                       saved |-> (resolved.path
                                      :> Written(PyList(<<>>), Timedelta(1), Url))
                                     @@ match.saved,
                       made |-> made,
                       finished |-> is_finished = Return(PyBool(TRUE))]
               [] OTHER ->
                      [ret |-> Return(PyList(<<>>)), requested |-> TRUE,
                       saved |-> match.saved, made |-> made,
                       finished |-> is_finished = Return(PyBool(TRUE))]

\* the odds of a match as the API sends them, and what the client saves
\* when the request fails
OddsData == PyDict({<<"markets", PyList(<<PyDict({<<"marketId", PyInt(1)>>})>>)>>})
NoMarkets == PyDict({<<"markets", PyList(<<>>)>>})

\* OddsMaxAge with one day for every match
OddsMaxAgeOneDay(is_finished) == Timedelta(1)

\* scrape_match_odds: the max-age of the odds, for the get and for the save:
\* none for a match reported finished, else one day
OddsMaxAge(is_finished) == IF is_finished THEN PyNone ELSE Timedelta(1)

\* Sofascore.scrape_match_odds(match) with caching on: what it returns (the
\* odds its DataFrame is built from) or raises, whether it asked the API,
\* and the file it saved; `response` is what the API answers if it is asked
scrape_match_odds(match_id, response) ==
    LET finished == is_match_finished(match_id)
        is_finished == finished = Return(PyBool(TRUE))
        resolved == _get_cache_path(<<"match_odds">>, match_id)
        cached_data == _get(<<"match_odds">>, match_id, OddsMaxAge(is_finished))
        made == _get_cache_path(<<"match_dict">>, match_id).made
                    \cup resolved.made
    IN  IF finished.kind = "raise"
        THEN [ret |-> finished, requested |-> FALSE, saved |-> <<>>,
              made |-> _get_cache_path(<<"match_dict">>, match_id).made,
              finished |-> FALSE]
        ELSE IF cached_data.kind = "raise"
        THEN [ret |-> cached_data, requested |-> FALSE, saved |-> <<>>,
              made |-> made, finished |-> is_finished]
        ELSE IF cached_data.val # PyNone
        THEN [ret |-> Return(IF IsDict(cached_data.val) /\ HasKey(cached_data.val, "data")
                             THEN Item(cached_data.val, "data")
                             ELSE cached_data.val),
              requested |-> FALSE, saved |-> <<>>,
              made |-> made, finished |-> is_finished]
        ELSE CASE response = 200 ->
                      [ret |-> Return(OddsData), requested |-> TRUE,
                       saved |-> resolved.path
                                     :> Written(OddsData, OddsMaxAge(is_finished), Url),
                       made |-> made, finished |-> is_finished]
               [] response = 404 ->
                      [ret |-> Return(PyList(<<>>)), requested |-> TRUE,
                       saved |-> resolved.path
                                     :> Written(NoMarkets, OddsMaxAge(is_finished), Url),
                       made |-> made, finished |-> is_finished]
               [] OTHER ->
                      [ret |-> Raise("Exception"), requested |-> TRUE,
                       saved |-> <<>>, made |-> made, finished |-> is_finished]

\* Sofascore.get_match_dict(match, use_cache=False): the cache is neither
\* read nor written
Sofascore_get_match_dict_uncached(match_id, response) ==
    IF response.status = 200
    THEN [ret |-> Return(response.event), requested |-> TRUE, saved |-> <<>>,
          made |-> {}]
    ELSE [ret |-> Raise("ValueError"), requested |-> TRUE, saved |-> <<>>,
          made |-> {}]

\* Sofascore.scrape_team_match_stats(match, use_cache=False); `match` is the
\* outcome of its call of self.get_match_dict, which goes through the cache
scrape_team_match_stats_uncached(match_id, match, response) ==
    LET resolved == _get_cache_path(<<"match_stats">>, match_id)
    IN  IF match.ret.kind = "raise"
        THEN [ret |-> match.ret, requested |-> FALSE, saved |-> <<>>,
              made |-> match.made]
        ELSE CASE response = 200 ->
                      [ret |-> Return(StatsData), requested |-> TRUE,
                       saved |-> match.saved, made |-> match.made]
               [] response = 404 ->
                      [ret |-> Return(PyList(<<>>)), requested |-> TRUE,
                       saved |-> (resolved.path
                                      :> Written(PyList(<<>>), Timedelta(1), Url))
                                     @@ match.saved,
                       made |-> match.made \cup resolved.made]
               [] OTHER ->
                      [ret |-> Return(PyList(<<>>)), requested |-> TRUE,
                       saved |-> match.saved, made |-> match.made]

\* Sofascore.scrape_match_odds(match, use_cache=False)
scrape_match_odds_uncached(match_id, response) ==
    CASE response = 200 ->
             [ret |-> Return(OddsData), requested |-> TRUE, saved |-> <<>>,
              made |-> {}]
      [] response = 404 ->
             [ret |-> Return(PyList(<<>>)), requested |-> TRUE, saved |-> <<>>,
              made |-> {}]
      [] OTHER ->
             [ret |-> Raise("Exception"), requested |-> TRUE, saved |-> <<>>,
              made |-> {}]

-----------------------------------------------------------------------------
(* The HTTP collaborator: botasaurus_get (utils/botasaurus_get.py).  Its   *)
(* clock is `now`, in whole hours.                                         *)

MAX_RETRIES == 3
\* hours before the proxy is forced, and hours before unproxied requests
\* are allowed again (the defaults of the environment)
UNPROXIED_MAX_WINDOW == 2
UNPROXIED_LOCKOUT_WINDOW == 1

\* the None of the two tracking variables
None == -1

\* what one req.get does: it raises (a ClientException or another
\* exception) or it returns a response with a status code
Raised(client) == [raised |-> TRUE, client |-> client, status_code |-> 0]
Resp(status_code) == [raised |-> FALSE, client |-> FALSE, status_code |-> status_code]

\* line 105: `PROXY_ENDPOINT and (random.random() * 100 < PROXY_PERCENTAGE)`
\* as the `if not use_proxy` after it reads it.  PROXY_ENDPOINT is what
\* os.getenv returned (None when the variable is not set); draw tells
\* whether the random number fell under PROXY_PERCENTAGE.
ProxyDraw(PROXY_ENDPOINT, draw) == Truthy(PROXY_ENDPOINT) /\ draw

\* UnproxiedLoop that returns whatever response it gets
RECURSIVE UnproxiedLoopAnyStatus(_, _)
UnproxiedLoopAnyStatus(answers, attempt) ==
    IF attempt >= MAX_RETRIES
    THEN [attempts |-> attempt, sleeps |-> MAX_RETRIES - 1, ret |-> Raise("Exception")]
    ELSE LET resp == answers[attempt + 1]
         IN  IF ~resp.raised
             THEN [attempts |-> attempt + 1, sleeps |-> attempt, ret |-> Return(resp)]
             ELSE UnproxiedLoopAnyStatus(answers, attempt + 1)

\* the loop of the unproxied request from `attempt` on (counted from 0, as
\* range(MAX_RETRIES) counts): the attempts made, the RETRY_DELAY sleeps,
\* and the response returned or the exception raised.  answers[i] is what
\* the i-th req.get does.
RECURSIVE UnproxiedLoop(_, _)
UnproxiedLoop(answers, attempt) ==
    IF attempt >= MAX_RETRIES
    THEN [attempts |-> attempt, sleeps |-> MAX_RETRIES - 1, ret |-> Raise("Exception")]
    ELSE LET resp == answers[attempt + 1]
         IN  IF ~resp.raised /\ resp.status_code = 404
             THEN [attempts |-> attempt + 1, sleeps |-> attempt, ret |-> Return(resp)]
             ELSE IF ~resp.raised /\ resp.status_code >= 200 /\ resp.status_code < 300
             THEN [attempts |-> attempt + 1, sleeps |-> attempt, ret |-> Return(resp)]
             ELSE IF resp.raised /\ resp.client /\ attempt < MAX_RETRIES - 1
             THEN \* sleep and continue
                  UnproxiedLoop(answers, attempt + 1)
             ELSE \* sleep unless this was the last attempt
                  UnproxiedLoop(answers, attempt + 1)

\* the loop of the proxied request
RECURSIVE ProxiedLoop(_, _)
ProxiedLoop(answers, attempt) ==
    IF attempt >= MAX_RETRIES
    THEN [attempts |-> attempt, sleeps |-> MAX_RETRIES - 1, ret |-> Raise("Exception")]
    ELSE LET resp == answers[attempt + 1]
         IN  IF ~resp.raised /\ resp.status_code = 404
             THEN [attempts |-> attempt + 1, sleeps |-> attempt, ret |-> Return(resp)]
             ELSE IF ~resp.raised /\ resp.status_code >= 200 /\ resp.status_code < 300
             THEN [attempts |-> attempt + 1, sleeps |-> attempt, ret |-> Return(resp)]
             ELSE ProxiedLoop(answers, attempt + 1)

\* botasaurus_get whose lockout never ends
botasaurus_get_locked(current_time, random_proxy, answers) ==
    LET locked == unproxied_lockout_until # None
        start == IF ~locked /\ ~random_proxy /\ unproxied_start_time = None
                 THEN current_time
                 ELSE unproxied_start_time
        exceeded == /\ ~locked
                    /\ ~random_proxy
                    /\ current_time - start >= UNPROXIED_MAX_WINDOW
        use_proxy == locked \/ random_proxy \/ exceeded
        loop == IF use_proxy THEN ProxiedLoop(answers, 0) ELSE UnproxiedLoop(answers, 0)
    IN  [use_proxy |-> use_proxy, reset |-> FALSE, start |-> start,
         lockout |-> IF exceeded
                     THEN current_time + UNPROXIED_LOCKOUT_WINDOW
                     ELSE unproxied_lockout_until,
         attempts |-> loop.attempts, sleeps |-> loop.sleeps, ret |-> loop.ret]

\* botasaurus_get(url) at current_time, for a url that is a string:
\* whether the request went through the proxy, the tracking variables it
\* leaves, the attempts it made and what it returned or raised.
\* random_proxy is PROXY_ENDPOINT and (random.random() * 100 <
\* PROXY_PERCENTAGE).
botasaurus_get(current_time, random_proxy, answers) ==
    LET locked == /\ unproxied_lockout_until # None
                  /\ current_time < unproxied_lockout_until
        reset == /\ ~locked
                 /\ unproxied_lockout_until # None
                 /\ current_time >= unproxied_lockout_until
        lockout == IF reset THEN None ELSE unproxied_lockout_until
        start == IF reset THEN None ELSE unproxied_start_time
        started == IF ~locked /\ ~random_proxy /\ start = None
                   THEN current_time
                   ELSE start
        exceeded == /\ ~locked
                    /\ ~random_proxy
                    /\ current_time - started >= UNPROXIED_MAX_WINDOW
        use_proxy == locked \/ random_proxy \/ exceeded
        loop == IF use_proxy THEN ProxiedLoop(answers, 0) ELSE UnproxiedLoop(answers, 0)
    IN  [use_proxy |-> use_proxy, reset |-> reset, start |-> started,
         lockout |-> IF exceeded
                     THEN current_time + UNPROXIED_LOCKOUT_WINDOW
                     ELSE lockout,
         attempts |-> loop.attempts, sleeps |-> loop.sleeps, ret |-> loop.ret]

-----------------------------------------------------------------------------
(* The calls the model makes.                                              *)

MatchIds == {<<"1">>}
Leagues == {<<"39">>}
Years == {<<"22", "/", "23">>}
Pages == {0, 1}

\* Sofascore match payloads: event['status']['type'] tells a finished match
Finished == PyDict({<<"status", PyDict({<<"type", PyStr("finished")>>})>>})
InProgress == PyDict({<<"status", PyDict({<<"type", PyStr("inprogress")>>})>>})
NoStatus == PyDict({<<"id", PyInt(1)>>})
StatusString == PyDict({<<"status", PyStr("finished")>>})

\* what a caller may hand to save_match_dict
MatchPayloads ==
    {PyNone, PyInt(5), PyDict({}), Finished, InProgress, NoStatus, StatusString,
     PyList(<<>>), PyList(<<NoStatus>>), PyTuple(<<PyInt(1)>>)}

\* what Sofascore.get_match_dicts hands to save_match_dicts: a page of events
PagePayloads == {PyList(<<>>), PyList(<<NoStatus>>)}

\* cache_duration of a save, and of a get
Durations == {PyNone} \cup {Timedelta(n) : n \in 0..(MaxTime - 1)}
MaxAges == {PyNone} \cup {Timedelta(n) : n \in 0..MaxTime}
Urls == {PyNone, PyStr("u")}

\* cache_duration of the pages Sofascore.get_match_dicts saves: none for a page
\* of matches, one day (the unit of time) for the empty page after a 404
PageDurations == {PyNone, Timedelta(1)}

\* The paths the calls above resolve to.
MatchDictPaths == {_get_cache_path(<<"match_dict">>, m).path : m \in MatchIds}
MatchDictsPaths ==
    {_get_cache_path(<<"match_dicts">>, MatchDictsKey(l, y, p)).path :
         l \in Leagues, y \in Years, p \in Pages}

\* Files this CacheManager did not write: damaged files, files of the format
\* before the envelope, and mappings with a `data` field from another writer.
ForeignContents ==
    {NotText, NotJson,
     JNull, JNumber(5), JArray(<<JsonDump(NoStatus)>>),
     JsonDump(Finished), JsonDump(StatusString),
     JObject({<<"duration", JNumber(0)>>, <<"timestamp", JNumber(0)>>}),
     JObject({<<"data", JArray(<<>>)>>, <<"duration", JNumber(1)>>})}

\* The call before this one, when it was a save (what a get follows).
Before == IF last.op \in {"save_match_dict", "save_match_dicts"}
          THEN last
          ELSE [op |-> "other"]

Init ==
    /\ dirs = {}
    /\ files = <<>>
    /\ now = 0
    /\ last = [op |-> "init"]
    /\ saving = <<>>
    /\ unproxied_start_time = None
    /\ unproxied_lockout_until = None
    /\ remote = [pages |-> 0, past |-> 404, empty |-> {}]

\* time passes
Tick ==
    /\ now < MaxTime
    /\ now' = now + 1
    /\ last' = [op |-> "tick"]
    /\ UNCHANGED <<dirs, files, saving, tracking, remote>>

\* another program writes a file at a cache path
ForeignWrite(path, content) ==
    /\ files' = (path :> [content |-> content, mtime |-> now]) @@ files
    /\ dirs' = dirs \cup Mkdir(SubSeq(path, 1, Len(path) - 1))
    /\ last' = [op |-> "foreign_write", path |-> path]
    /\ UNCHANGED <<now, saving, tracking, remote>>

SaveMatchDict(match_id, match_data, cache_duration, url) ==
    /\ files' = _save(<<"match_dict">>, match_id, match_data, cache_duration, url)
    /\ dirs' = dirs \cup _get_cache_path(<<"match_dict">>, match_id).made
    /\ last' = [op |-> "save_match_dict", match_id |-> match_id,
                data |-> match_data, cache_duration |-> cache_duration,
                url |-> url, ret |-> Return(PyNone)]
    /\ UNCHANGED <<now, saving, tracking, remote>>

\* GetMatchDict removing the file of an entry it finds stale or undecodable
GetMatchDictEvicting(match_id, cache_duration) ==
    /\ dirs' = dirs \cup _get_cache_path(<<"match_dict">>, match_id).made
    /\ files' = IF get_match_dict(match_id, cache_duration) = Return(PyNone)
                THEN [path \in DOMAIN files
                               \ {_get_cache_path(<<"match_dict">>, match_id).path}
                          |-> files[path]]
                ELSE files
    /\ last' = [op |-> "get_match_dict", match_id |-> match_id,
                cache_duration |-> cache_duration,
                ret |-> get_match_dict(match_id, cache_duration),
                after |-> Before]
    /\ UNCHANGED <<now, saving, tracking, remote>>

GetMatchDict(match_id, cache_duration) ==
    /\ dirs' = dirs \cup _get_cache_path(<<"match_dict">>, match_id).made
    /\ last' = [op |-> "get_match_dict", match_id |-> match_id,
                cache_duration |-> cache_duration,
                ret |-> get_match_dict(match_id, cache_duration),
                after |-> Before]
    /\ UNCHANGED <<files, now, saving, tracking, remote>>

SaveMatchDicts(league, year, page, matches_data, cache_duration, url) ==
    /\ files' = _save(<<"match_dicts">>, MatchDictsKey(league, year, page),
                      matches_data, cache_duration, url)
    /\ dirs' = dirs \cup _get_cache_path(<<"match_dicts">>,
                                         MatchDictsKey(league, year, page)).made
    /\ last' = [op |-> "save_match_dicts", league |-> league, year |-> year,
                page |-> page, data |-> matches_data,
                cache_duration |-> cache_duration, url |-> url,
                ret |-> Return(PyNone)]
    /\ UNCHANGED <<now, saving, tracking, remote>>

GetMatchDicts(league, year, page, cache_duration) ==
    /\ dirs' = dirs \cup _get_cache_path(<<"match_dicts">>,
                                         MatchDictsKey(league, year, page)).made
    /\ last' = [op |-> "get_match_dicts", league |-> league, year |-> year,
                page |-> page, cache_duration |-> cache_duration,
                ret |-> get_match_dicts(league, year, page, cache_duration),
                after |-> Before]
    /\ UNCHANGED <<files, now, saving, tracking, remote>>

IsMatchFinished(match_id) ==
    /\ dirs' = dirs \cup _get_cache_path(<<"match_dict">>, match_id).made
    /\ last' = [op |-> "is_match_finished", match_id |-> match_id,
                ret |-> is_match_finished(match_id)]
    /\ UNCHANGED <<files, now, saving, tracking, remote>>

\* The match_dict cache: one resource type of flat keys, and the query on it.
Next ==
    \/ Tick
    \/ \E path \in MatchDictPaths, content \in ForeignContents :
           ForeignWrite(path, content)
    \/ \E m \in MatchIds, data \in MatchPayloads, d \in Durations, u \in Urls :
           SaveMatchDict(m, data, d, u)
    \/ \E m \in MatchIds, d \in MaxAges : GetMatchDict(m, d)
    \/ \E m \in MatchIds : IsMatchFinished(m)

Spec == Init /\ [][Next]_vars

\* The match_dicts cache: the resource type of league/year/page keys.
NextPages ==
    \/ Tick
    \/ \E l \in Leagues, y \in Years, p \in Pages, data \in PagePayloads,
          d \in PageDurations :
           SaveMatchDicts(l, y, p, data, d, PyStr("u"))
    \/ \E l \in Leagues, y \in Years, p \in Pages, d \in MaxAges :
           GetMatchDicts(l, y, p, d)

SpecPages == Init /\ [][NextPages]_vars

\* The filesystem operation of a save, and of a get, that fails ("none": the
\* call meets no failure).
SaveFaults == {"none", "mkdir", "open", "write"}
GetFaults == {"none", "mkdir", "stat", "open", "read"}

\* what Sofascore hands to save_match_dict: an event, or a list
EventPayloads == {Finished, PyList(<<>>)}

SaveMatchDictFailing(match_id, match_data, cache_duration, url, fault) ==
    LET saved == _save_failing(<<"match_dict">>, match_id, match_data,
                               cache_duration, url, fault)
    IN  /\ files' = saved.files
        /\ dirs' = dirs \cup saved.made
        /\ last' = [op |-> "save_match_dict", match_id |-> match_id,
                    data |-> match_data, cache_duration |-> cache_duration,
                    url |-> url, fault |-> fault, ret |-> saved.ret]
        /\ UNCHANGED <<now, saving, tracking, remote>>

GetMatchDictFailing(match_id, cache_duration, fault) ==
    /\ dirs' = IF fault = "mkdir"
               THEN dirs
               ELSE dirs \cup _get_cache_path(<<"match_dict">>, match_id).made
    /\ last' = [op |-> "get_match_dict", match_id |-> match_id,
                cache_duration |-> cache_duration, fault |-> fault,
                ret |-> _get_failing(<<"match_dict">>, match_id,
                                     cache_duration, fault)]
    /\ UNCHANGED <<files, now, saving, tracking, remote>>

\* The match_dict cache on a filesystem whose operations may fail.
NextFaults ==
    \/ Tick
    \/ \E m \in MatchIds, data \in EventPayloads, d \in PageDurations,
          fault \in SaveFaults :
           SaveMatchDictFailing(m, data, d, PyStr("u"), fault)
    \/ \E m \in MatchIds, d \in MaxAges, fault \in GetFaults :
           GetMatchDictFailing(m, d, fault)

SpecFaults == Init /\ [][NextFaults]_vars

\* The threads or processes that share the cache directory.
Callers == {"a", "b"}

\* save_match_dict up to open(cache_path, "w"): the path is resolved, the
\* envelope is built with the time of now, and the file is emptied.
SaveOpen(caller, match_id, match_data, url) ==
    LET resolved == _get_cache_path(<<"match_dict">>, match_id)
    IN  /\ caller \notin DOMAIN saving
        /\ dirs' = dirs \cup resolved.made
        /\ files' = (resolved.path :> [content |-> Cut(0), mtime |-> now]) @@ files
        /\ saving' = (caller :> [match_id |-> match_id, data |-> match_data,
                                 text |-> JsonDump(Envelope(match_data, PyNone, url)),
                                 before |-> get_match_dict(match_id, PyNone)])
                         @@ saving
        /\ last' = [op |-> "open", caller |-> caller]
        /\ UNCHANGED <<now, tracking, remote>>

\* save_match_dict from json.dump to the close of the file: the text is
\* written from the beginning of the file, and the call returns.
SaveClose(caller) ==
    /\ caller \in DOMAIN saving
    /\ LET path == _get_cache_path(<<"match_dict">>, saving[caller].match_id).path
       IN  files' = (path :> [content |-> Overwritten(saving[caller].text,
                                                      files[path].content),
                              mtime |-> now]) @@ files
    /\ saving' = [c \in DOMAIN saving \ {caller} |-> saving[c]]
    /\ last' = [op |-> "save_match_dict", match_id |-> saving[caller].match_id,
                data |-> saving[caller].data, text |-> saving[caller].text,
                ret |-> Return(PyNone)]
    /\ UNCHANGED <<dirs, now, tracking, remote>>

\* One caller saves while others read.
NextReader ==
    \/ Tick
    \/ \E m \in MatchIds, data \in EventPayloads : SaveOpen("a", m, data, PyStr("u"))
    \/ SaveClose("a")
    \/ \E m \in MatchIds : GetMatchDict(m, PyNone)

SpecReader == Init /\ [][NextReader]_vars

\* Several callers save the same key.
NextWriters ==
    \/ Tick
    \/ \E c \in Callers, m \in MatchIds, data \in EventPayloads :
           SaveOpen(c, m, data, PyStr("u"))
    \/ \E c \in Callers : SaveClose(c)
    \/ \E m \in MatchIds : GetMatchDict(m, PyNone)

SpecWriters == Init /\ [][NextWriters]_vars

\* The keys handed to the resolver: every string of at most MaxKeyLen tokens,
\* a token being the league id "39" or the separator.
KeyTokens == {"39", "/"}
Keys == UNION {[1..n -> KeyTokens] : n \in 0..MaxKeyLen}

\* the paginated type and a flat type
CacheTypes == {<<"match_dicts">>, <<"match_dict">>}

\* one call of _get_cache_path on the fresh cache root
Resolve(cache_type, key) ==
    /\ last.op = "init"
    /\ dirs' = dirs \cup _get_cache_path(cache_type, key).made
    /\ last' = [op |-> "_get_cache_path", cache_type |-> cache_type, key |-> key,
                ret |-> _get_cache_path(cache_type, key).path]
    /\ UNCHANGED <<files, now, saving, tracking, remote>>

\* one call of _save on the fresh cache root
SaveKey(cache_type, key, data) ==
    /\ last.op = "init"
    /\ files' = _save(cache_type, key, data, PyNone, PyNone)
    /\ dirs' = dirs \cup _get_cache_path(cache_type, key).made
    /\ last' = [op |-> "_save", cache_type |-> cache_type, key |-> key,
                data |-> data]
    /\ UNCHANGED <<now, saving, tracking, remote>>

\* one call of _get after the save
GetKey(cache_type, key) ==
    /\ last.op = "_save"
    /\ dirs' = dirs \cup _get_cache_path(cache_type, key).made
    /\ last' = [op |-> "_get", cache_type |-> cache_type, key |-> key,
                ret |-> _get(cache_type, key, PyNone), after |-> last]
    /\ UNCHANGED <<files, now, saving, tracking, remote>>

\* The path resolver, and a save and a get through it, for every key.
NextResolver ==
    \/ \E t \in CacheTypes, key \in Keys : Resolve(t, key)
    \/ \E t \in CacheTypes, key \in Keys : SaveKey(t, key, PyList(<<NoStatus>>))
    \/ \E t \in CacheTypes, key \in Keys : GetKey(t, key)

SpecResolver == Init /\ [][NextResolver]_vars

\* What the API may hold for a season, and answer past its last page.
Servers == [pages : 0..MaxServerPages, past : {404, 500}, empty : {{}}]

\* the files the pages gone through were saved to
RECURSIVE PageFiles(_, _, _)
PageFiles(league, year, steps) ==
    IF steps = <<>>
    THEN <<>>
    ELSE LET step == Head(steps)
             rest == PageFiles(league, year, Tail(steps))
         IN  IF step.saved = <<>>
             THEN rest
             ELSE (_get_cache_path(<<"match_dicts">>,
                                   MatchDictsKey(league, year, step.page)).path
                       :> Written(step.saved[1], step.saved[2], Url)) @@ rest

\* the matches of the pages gone through, in order
RECURSIVE Matches(_)
Matches(steps) ==
    IF steps = <<>> THEN <<>> ELSE Head(steps).got \o Matches(Tail(steps))

\* Sofascore.get_match_dicts(year, league) with caching on
SofascoreGetMatchDicts(year, league, seasons_response, server) ==
    LET seasons == get_valid_seasons(league, seasons_response)
        pages == Paginate(league, year, server, 0)
    IN  IF seasons.ret.kind = "raise"
        THEN /\ dirs' = dirs \cup seasons.made
             /\ last' = [op |-> "Sofascore.get_match_dicts", league |-> league,
                         year |-> year, steps |-> <<>>, ret |-> seasons.ret]
             /\ UNCHANGED <<files, now, saving, tracking, remote>>
        ELSE /\ files' = PageFiles(league, year, pages.steps)
                             @@ seasons.saved @@ files
             /\ dirs' = dirs \cup seasons.made
                            \cup UNION {_get_cache_path(<<"match_dicts">>,
                                            MatchDictsKey(league, year,
                                                          pages.steps[k].page)).made :
                                            k \in DOMAIN pages.steps}
             /\ last' = [op |-> "Sofascore.get_match_dicts", league |-> league,
                         year |-> year, steps |-> pages.steps,
                         ret |-> IF pages.raised
                                 THEN Raise("Exception")
                                 ELSE Return(PyList(Matches(pages.steps)))]
             /\ UNCHANGED <<now, saving, tracking, remote>>

\* The listing of a season's matches, page by page.
NextPagination ==
    \/ Tick
    \/ \E y \in Years, l \in Leagues, r \in {200, 500}, server \in Servers :
           SofascoreGetMatchDicts(y, l, r, server)

SpecPagination == Init /\ [][NextPagination]_vars

\* What the API answers to the request for a match: the event, which is in
\* progress or finished, or 404.
EventResponses ==
    {[status |-> 200, event |-> e] : e \in {InProgress, Finished}}
        \cup {[status |-> 404, event |-> PyNone]}

SofascoreGetMatchDict(match_id, response) ==
    LET call == Sofascore_get_match_dict(match_id, response)
    IN  /\ files' = call.saved @@ files
        /\ dirs' = dirs \cup call.made
        /\ last' = [op |-> "Sofascore.get_match_dict", match_id |-> match_id,
                    requested |-> call.requested, ret |-> call.ret]
        /\ UNCHANGED <<now, saving, tracking, remote>>

ScrapeTeamMatchStats(match_id, event, response) ==
    \E match \in {Sofascore_get_match_dict(match_id, event)} :
        \E call \in {scrape_team_match_stats(match_id, match, response)} :
            /\ files' = call.saved @@ files
            /\ dirs' = dirs \cup call.made
            /\ last' = [op |-> "Sofascore.scrape_team_match_stats",
                        match_id |-> match_id, requested |-> call.requested,
                        finished |-> call.finished, ret |-> call.ret]
            /\ UNCHANGED <<now, saving, tracking, remote>>

\* The match payloads, fetched once and served from the cache, and the
\* statistics of the matches.
NextMatch ==
    \/ Tick
    \/ \E m \in MatchIds, response \in EventResponses :
           SofascoreGetMatchDict(m, response)
    \/ \E m \in MatchIds, event \in EventResponses, response \in {200, 404, 500} :
           ScrapeTeamMatchStats(m, event, response)

SpecMatch == Init /\ [][NextMatch]_vars

ScrapeMatchOdds(match_id, response) ==
    \E call \in {scrape_match_odds(match_id, response)} :
        /\ files' = call.saved @@ files
        /\ dirs' = dirs \cup call.made
        /\ last' = [op |-> "Sofascore.scrape_match_odds", match_id |-> match_id,
                    requested |-> call.requested, finished |-> call.finished,
                    ret |-> call.ret]
        /\ UNCHANGED <<now, saving, tracking, remote>>

\* The odds of matches whose payload is fetched before or after them.
NextOdds ==
    \/ Tick
    \/ \E m \in MatchIds, response \in EventResponses :
           SofascoreGetMatchDict(m, response)
    \/ \E m \in MatchIds, response \in {200, 404, 500} :
           ScrapeMatchOdds(m, response)

SpecOdds == Init /\ [][NextOdds]_vars

\* what a req.get can do
Answers == {Resp(c) : c \in {200, 404, 500}} \cup {Raised(c) : c \in BOOLEAN}

\* an hour passes
Wait ==
    /\ now < MaxHours
    /\ now' = now + 1
    /\ last' = [op |-> "wait"]
    /\ UNCHANGED <<dirs, files, saving, tracking, remote>>

BotasaurusGet(random_proxy, answers) ==
    \E call \in {botasaurus_get(now, random_proxy, answers)} :
        /\ unproxied_start_time' = call.start
        /\ unproxied_lockout_until' = call.lockout
        /\ last' = [op |-> "botasaurus_get", random_proxy |-> random_proxy,
                    answers |-> answers, use_proxy |-> call.use_proxy,
                    reset |-> call.reset, attempts |-> call.attempts,
                    sleeps |-> call.sleeps, ret |-> call.ret]
        /\ UNCHANGED <<dirs, files, now, saving, remote>>

\* The requests of one process over the hours.
NextRequests ==
    \/ Wait
    \/ \E random_proxy \in BOOLEAN, answers \in [1..MAX_RETRIES -> Answers] :
           BotasaurusGet(random_proxy, answers)

SpecRequests == Init /\ [][NextRequests]_vars

\* The requests of a process started with no PROXY_ENDPOINT in its
\* environment: os.getenv("PROXY_ENDPOINT") is None for the whole run.
NextUnconfigured ==
    \/ Wait
    \/ \E draw \in BOOLEAN, answers \in [1..MAX_RETRIES -> Answers] :
           BotasaurusGet(ProxyDraw(PyNone, draw), answers)

SpecUnconfigured == Init /\ [][NextUnconfigured]_vars

\* the years of two seasons, as callers of the cache may write them
SeasonYears == {<<"22", "/", "23">>, <<"22", "_", "23">>}

\* The pages of two seasons of one league, saved and read.
NextKeys ==
    \/ \E l \in Leagues, y \in SeasonYears, p \in Pages, data \in PagePayloads :
           SaveMatchDicts(l, y, p, data, PyNone, PyStr("u"))
    \/ \E l \in Leagues, y \in SeasonYears, p \in Pages :
           GetMatchDicts(l, y, p, PyNone)

SpecKeys == Init /\ [][NextKeys]_vars

\* The keys of the containment check: the tokens of a key are the league
\* id, the separator and the parent directory name.
DotTokens == {"39", "/", ".."}
DotKeys == UNION {[1..n -> DotTokens] : n \in 0..MaxKeyLen}

\* The path resolver, and a save through it, for keys that name the parent
\* directory.
NextDots ==
    \/ \E t \in CacheTypes, key \in DotKeys : Resolve(t, key)
    \/ \E t \in CacheTypes, key \in DotKeys : SaveKey(t, key, PyList(<<NoStatus>>))

SpecDots == Init /\ [][NextDots]_vars

\* what the remote API answers to the request for the event of a match: the
\* match is in progress until MatchEnds and finished from then on
RemoteEvent ==
    [status |-> 200, event |-> IF now >= MatchEnds THEN Finished ELSE InProgress]

\* The calls of a client that keeps asking about a match, with caching on,
\* while the match comes to its end at the remote API.
NextFinish ==
    \/ Tick
    \/ \E m \in MatchIds : SofascoreGetMatchDict(m, RemoteEvent)
    \/ \E m \in MatchIds, response \in {200, 404, 500} :
           ScrapeTeamMatchStats(m, RemoteEvent, response)
    \/ \E m \in MatchIds, response \in {200, 404, 500} :
           ScrapeMatchOdds(m, response)
    \/ \E m \in MatchIds : IsMatchFinished(m)

\* time passes, whatever the client does
SpecFinish == Init /\ [][NextFinish]_vars /\ WF_vars(Tick)

\* Sofascore.get_match_dicts(year, league, use_cache=False); the valid
\* seasons are still taken through the cache
SofascoreGetMatchDictsUncached(year, league, seasons_response, server) ==
    \E seasons \in {get_valid_seasons(league, seasons_response)} :
        \E pages \in {PaginateUncached(server, 0)} :
            /\ files' = seasons.saved @@ files
            /\ dirs' = dirs \cup seasons.made
            /\ last' = [op |-> "Sofascore.get_match_dicts(use_cache=False)",
                        league |-> league, year |-> year,
                        steps |-> IF seasons.ret.kind = "raise"
                                  THEN <<>>
                                  ELSE pages.steps,
                        ret |-> IF seasons.ret.kind = "raise"
                                THEN seasons.ret
                                ELSE IF pages.raised
                                THEN Raise("Exception")
                                ELSE Return(PyList(Matches(pages.steps)))]
            /\ UNCHANGED <<now, saving, tracking, remote>>

\* What the API may hold for a season: some of its pages may hold no event.
SparseServers ==
    [pages : 0..(MaxServerPages + 1), past : {404, 500},
     empty : SUBSET (0..MaxServerPages)]

\* the remote API takes the season it holds, before the first call
Publish(server) ==
    /\ last.op = "init"
    /\ remote' = server
    /\ last' = [op |-> "publish"]
    /\ UNCHANGED <<dirs, files, now, saving, tracking>>

\* The listing of a season whose pages at the remote API do not change, with
\* and without the cache.
NextAgree ==
    \/ Tick
    \/ \E server \in SparseServers : Publish(server)
    \/ \E y \in Years, l \in Leagues : SofascoreGetMatchDicts(y, l, 200, remote)
    \/ \E y \in Years, l \in Leagues :
           SofascoreGetMatchDictsUncached(y, l, 200, remote)

SpecAgree == Init /\ [][NextAgree]_vars

\* a Sofascore operation called with use_cache=False
Bypassing(op, match_id, call) ==
    /\ files' = call.saved @@ files
    /\ dirs' = dirs \cup call.made
    /\ last' = [op |-> op, match_id |-> match_id,
                requested |-> call.requested, ret |-> call.ret]
    /\ UNCHANGED <<now, saving, tracking, remote>>

SofascoreGetMatchDictUncached(match_id, response) ==
    \E call \in {Sofascore_get_match_dict_uncached(match_id, response)} :
        Bypassing("Sofascore.get_match_dict(use_cache=False)", match_id, call)

ScrapeTeamMatchStatsUncached(match_id, event, response) ==
    \E match \in {Sofascore_get_match_dict(match_id, event)} :
        \E call \in {scrape_team_match_stats_uncached(match_id, match, response)} :
            Bypassing("Sofascore.scrape_team_match_stats(use_cache=False)",
                      match_id, call)

ScrapeMatchOddsUncached(match_id, response) ==
    \E call \in {scrape_match_odds_uncached(match_id, response)} :
        Bypassing("Sofascore.scrape_match_odds(use_cache=False)", match_id, call)

\* The operations of the client with the cache on, which fill the cache, and
\* with use_cache=False.
NextBypass ==
    \/ \E m \in MatchIds, response \in EventResponses :
           SofascoreGetMatchDict(m, response)
    \/ \E m \in MatchIds, event \in EventResponses, response \in {200, 404, 500} :
           ScrapeTeamMatchStats(m, event, response)
    \/ \E m \in MatchIds, response \in {200, 404, 500} :
           ScrapeMatchOdds(m, response)
    \/ \E m \in MatchIds, response \in EventResponses :
           SofascoreGetMatchDictUncached(m, response)
    \/ \E m \in MatchIds, event \in EventResponses, response \in {200, 404, 500} :
           ScrapeTeamMatchStatsUncached(m, event, response)
    \/ \E m \in MatchIds, response \in {200, 404, 500} :
           ScrapeMatchOddsUncached(m, response)
    \/ \E y \in Years, l \in Leagues, server \in Servers :
           SofascoreGetMatchDictsUncached(y, l, 200, server)

SpecBypass == Init /\ [][NextBypass]_vars

-----------------------------------------------------------------------------
(* What the claims speak of.                                               *)

\* {root}/match_dict/{match_id}.json
MatchDictFile(match_id) == <<<<"match_dict">>, match_id \o <<".json">>>>

\* {root}/match_dicts/{league}/{year with '/' replaced by '_'}/{page}.json
MatchDictsFile(league, year, page) ==
    <<<<"match_dicts">>, league, Replace(year, "/", "_"), Str(page) \o <<".json">>>>

\* get returned absent
Absent == Return(PyNone)

\* the outcome is a returned payload
Returned(ret) == ret.kind = "return" /\ ret.val # PyNone

\* the content is a JSON document
IsJson(content) == content.kind \notin {"bytes", "malformed"}

\* the decoded document of the file at path
Stored(path) == JsonLoad(files[path].content)

\* the file at path holds an envelope as save writes it
SavedEntry(path) ==
    /\ path \in DOMAIN files
    /\ IsJson(files[path].content)
    /\ IsDict(Stored(path))
    /\ {item[1] : item \in Stored(path).val}
           = {"data", "timestamp", "duration", "source_url"}

\* now - T for the file at path, T the time it was last written
Age(path) == now - files[path].mtime

\* the envelope carries a duration and is older than it
EmbeddedExceeded(entry) ==
    /\ Item(entry, "duration") # PyNone
    /\ now - Item(entry, "timestamp").val > Item(entry, "duration").val

\* the last call was a get_match_dict right after a save_match_dict of the key
GetAfterSave ==
    /\ last.op = "get_match_dict"
    /\ last.after.op = "save_match_dict"
    /\ last.after.match_id = last.match_id

\* the last call was a get_match_dicts right after a save_match_dicts of the key
GetPageAfterSave ==
    /\ last.op = "get_match_dicts"
    /\ last.after.op = "save_match_dicts"
    /\ last.after.league = last.league
    /\ last.after.year = last.year
    /\ last.after.page = last.page

-----------------------------------------------------------------------------
\* C1: a save of payload P with duration D and source URL U, followed at once
\* by a get with no caller max-age, returns exactly P, and the stored entry
\* records max_age D and source_url U (for every P, every D including none
\* and zero, every U).
RoundTrip ==
    (GetAfterSave /\ last.cache_duration = PyNone)
    => LET entry == Stored(MatchDictFile(last.match_id))
       IN  /\ last.ret = Return(last.after.data)
           /\ Item(entry, "duration")
                  = IF last.after.cache_duration = PyNone
                    THEN PyNone
                    ELSE PyInt(last.after.cache_duration.val)
           /\ Item(entry, "source_url") = last.after.url

-----------------------------------------------------------------------------
\* the last call was a get with a caller max-age d > 0 on an entry save wrote
CallerDuration ==
    /\ last.op = "get_match_dict"
    /\ last.cache_duration # PyNone
    /\ last.cache_duration.val > 0
    /\ SavedEntry(MatchDictFile(last.match_id))

\* C2 as stated, on entries whose payload is a list or a mapping: for a file
\* last written at T and a caller max-age d > 0, get returns the stored
\* payload if and only if now - T < d, and absent as soon as now - T >= d.
CallerFreshnessIff ==
    (CallerDuration
     /\ HasLen(Item(Stored(MatchDictFile(last.match_id)), "data")))
    => LET path == MatchDictFile(last.match_id)
       IN  /\ last.ret = Return(Item(Stored(path), "data"))
                  <=> Age(path) < last.cache_duration.val
           /\ Age(path) >= last.cache_duration.val => last.ret = Absent

\* C2 (amended): for a file last written at T and a caller max-age d > 0,
\* get returns absent if and only if now - T >= d or the entry's embedded
\* max_age is exceeded (now - written_at > max_age); a payload it returns is
\* the stored payload, so it returns the payload only if now - T < d.
CallerFreshness ==
    CallerDuration
    => LET path == MatchDictFile(last.match_id)
       IN  /\ last.ret = Absent
                  <=> \/ Age(path) >= last.cache_duration.val
                      \/ EmbeddedExceeded(Stored(path))
           /\ Returned(last.ret)
                  => /\ last.ret.val = Item(Stored(path), "data")
                     /\ Age(path) < last.cache_duration.val

\* C2 witness: the file is younger than the caller max-age, the embedded
\* max_age is exceeded, and get returned absent.
CallerFreshnessWitness ==
    /\ CallerDuration
    /\ Age(MatchDictFile(last.match_id)) < last.cache_duration.val
    /\ EmbeddedExceeded(Stored(MatchDictFile(last.match_id)))
    /\ last.ret = Absent

-----------------------------------------------------------------------------
\* the last call was a get with no caller max-age on an entry save wrote with
\* an embedded duration
EmbeddedDuration ==
    /\ last.op = "get_match_dict"
    /\ last.cache_duration = PyNone
    /\ SavedEntry(MatchDictFile(last.match_id))
    /\ Item(Stored(MatchDictFile(last.match_id)), "duration") # PyNone

\* C3 as stated: an entry with embedded duration D written at T, read with
\* no caller max-age, is returned only while now - T < D (not at
\* now - T = D), and get returns absent once that age is exceeded.
EmbeddedFreshnessStrict ==
    EmbeddedDuration
    => LET entry == Stored(MatchDictFile(last.match_id))
           age == now - Item(entry, "timestamp").val
       IN  /\ Returned(last.ret) => age < Item(entry, "duration").val
           /\ age > Item(entry, "duration").val => last.ret = Absent

\* C3 (amended): an entry whose envelope records duration D and write time T,
\* read with no caller max-age, is returned only while now - T <= D (it is
\* still served at now - T = D); get returns absent exactly when
\* now - T > D, although no caller max-age would otherwise mean forever.
EmbeddedFreshness ==
    EmbeddedDuration
    => LET entry == Stored(MatchDictFile(last.match_id))
           age == now - Item(entry, "timestamp").val
       IN  /\ last.ret = Absent <=> age > Item(entry, "duration").val
           /\ Returned(last.ret)
                  => /\ last.ret.val = Item(entry, "data")
                     /\ age <= Item(entry, "duration").val

\* C3 witness: the entry is exactly as old as its duration and is returned.
EmbeddedFreshnessWitness ==
    /\ EmbeddedDuration
    /\ LET entry == Stored(MatchDictFile(last.match_id))
       IN  /\ now - Item(entry, "timestamp").val = Item(entry, "duration").val
           /\ last.ret = Return(Item(entry, "data"))

-----------------------------------------------------------------------------
\* the entry at path passes both gates of a get with caller max-age d
Fresh(path, d) ==
    /\ d = PyNone \/ Age(path) < d.val
    /\ ~EmbeddedExceeded(Stored(path))

\* C4: after save_match_dicts(league, year, page, []) a
\* get_match_dicts(league, year, page) returns the empty list, not absent; a
\* page that was never saved returns absent; and a get of a stored empty
\* payload that passes the freshness gates returns the empty list.
EmptyNotAbsent ==
    last.op = "get_match_dicts"
    => LET path == MatchDictsFile(last.league, last.year, last.page)
       IN  /\ (/\ GetPageAfterSave
               /\ last.cache_duration = PyNone
               /\ last.after.data = PyList(<<>>))
                  => last.ret = Return(PyList(<<>>))
           /\ path \notin DOMAIN files => last.ret = Absent
           /\ (/\ SavedEntry(path)
               /\ Item(Stored(path), "data") = PyList(<<>>)
               /\ Fresh(path, last.cache_duration))
                  => (last.ret = Return(PyList(<<>>)) /\ last.ret # Absent)

\* C4 witness: a get right after the save of an empty page returned the
\* empty list.
EmptyNotAbsentWitness ==
    /\ GetPageAfterSave
    /\ last.cache_duration = PyNone
    /\ last.after.data = PyList(<<>>)
    /\ last.ret = Return(PyList(<<>>))

-----------------------------------------------------------------------------
\* C5: whatever an existing cache file holds (malformed text, a truncated
\* file, arbitrary bytes), the get returns absent and raises nothing.
CorruptionResilience ==
    (/\ last.op = "get_match_dict"
     /\ MatchDictFile(last.match_id) \in DOMAIN files
     /\ ~IsJson(files[MatchDictFile(last.match_id)].content))
    => last.ret = Absent

-----------------------------------------------------------------------------
\* the year contains '/'
HasSlash(year) == \E i \in 1..Len(year) : year[i] = "/"

\* C6: save_match_dicts(league, year, page, data) with a year containing '/'
\* writes the file at root/match_dicts/<league>/<year, '/' replaced by
\* '_'>/<page>.json (both directories exist), and get_match_dicts with the
\* same league, year and page returns data unchanged.
CompositeKey ==
    /\ (last.op = "save_match_dicts" /\ HasSlash(last.year))
           => LET path == MatchDictsFile(last.league, last.year, last.page)
              IN  /\ path \in DOMAIN files
                  /\ files[path].mtime = now
                  /\ Item(Stored(path), "data") = last.data
                  /\ {<<<<"match_dicts">>, last.league>>,
                      <<<<"match_dicts">>, last.league,
                        Replace(last.year, "/", "_")>>} \subseteq dirs
                  /\ \A f \in DOMAIN files :
                         \E l \in Leagues, y \in Years, p \in Pages :
                             f = MatchDictsFile(l, y, p)
    /\ (GetPageAfterSave /\ HasSlash(last.year) /\ last.cache_duration = PyNone)
           => last.ret = Return(last.after.data)

\* C6 witness: a page of matches saved under a year with '/' was read back.
CompositeKeyWitness ==
    /\ GetPageAfterSave
    /\ HasSlash(last.year)
    /\ last.cache_duration = PyNone
    /\ last.after.data # PyList(<<>>)
    /\ last.ret = Return(last.after.data)
    /\ MatchDictsFile(last.league, last.year, last.page) \in DOMAIN files

-----------------------------------------------------------------------------
\* the payload has a nested status.type equal to "finished"
StatusFinished(payload) ==
    /\ IsDict(payload)
    /\ HasKey(payload, "status")
    /\ IsDict(Item(payload, "status"))
    /\ DictGet(Item(payload, "status"), "type", PyNone) = PyStr("finished")

\* C7: is_match_finished(match_id) returns true exactly when a match payload
\* is cached for match_id and its nested status.type equals "finished"; for
\* any other status value, a payload without a status, or no cached payload
\* it returns false.  (Stated for the states where get_match_dict returns.)
FinishedExactly ==
    (/\ last.op = "is_match_finished"
     /\ get_match_dict(last.match_id, PyNone).kind = "return")
    => LET got == get_match_dict(last.match_id, PyNone)
       IN  last.ret = Return(PyBool(Returned(got) /\ StatusFinished(got.val)))

-----------------------------------------------------------------------------
\* C8: is_match_finished never raises: whatever the match_dict cache file
\* holds, it returns (false where there is no finished match payload).
NeverRaises ==
    last.op = "is_match_finished" => last.ret.kind = "return"

-----------------------------------------------------------------------------
\* C9: is_match_finished is a pure read: a call leaves the cache store and
\* the filesystem unchanged (no file or directory is created, modified or
\* deleted).
PureRead ==
    [][(\E m \in MatchIds : IsMatchFinished(m))
           => (dirs' = dirs /\ files' = files)]_vars

-----------------------------------------------------------------------------
\* the last call was a get on a file holding a decodable value that is not a
\* mapping with a `data` field
LegacyFile ==
    /\ last.op = "get_match_dict"
    /\ MatchDictFile(last.match_id) \in DOMAIN files
    /\ IsJson(files[MatchDictFile(last.match_id)].content)
    /\ LET value == Stored(MatchDictFile(last.match_id))
       IN  value.kind # "dict" \/ \A item \in value.val : item[1] # "data"

\* C10: when a cache file holds a decodable value that is not a mapping
\* containing a `data` field, get returns that whole value as the payload and
\* applies no embedded-age expiry: with no caller max-age it is served at any
\* age, with a caller max-age d whenever the file is younger than d.
LegacyServed ==
    LegacyFile
    => LET path == MatchDictFile(last.match_id)
       IN  IF last.cache_duration = PyNone \/ Age(path) < last.cache_duration.val
           THEN last.ret = Return(Stored(path))
           ELSE last.ret = Absent

\* C10 witness: a mapping without `data` that carries a duration of 0 and a
\* timestamp of 0 was returned whole at a later time.
LegacyServedWitness ==
    /\ LegacyFile
    /\ last.cache_duration = PyNone
    /\ now > 0
    /\ IsDict(Stored(MatchDictFile(last.match_id)))
    /\ HasKey(Stored(MatchDictFile(last.match_id)), "duration")
    /\ last.ret = Return(Stored(MatchDictFile(last.match_id)))

-----------------------------------------------------------------------------
\* C11: get returns a payload only if the entry passes both gates: the file
\* modification time against the caller max-age and, when the entry records a
\* max_age, now - written_at against it; an entry older than its embedded
\* max_age is absent whatever the caller max-age is (larger, or none).
TwoGates ==
    (last.op = "get_match_dict" /\ SavedEntry(MatchDictFile(last.match_id)))
    => LET path == MatchDictFile(last.match_id)
       IN  /\ Returned(last.ret) => Fresh(path, last.cache_duration)
           /\ EmbeddedExceeded(Stored(path)) => last.ret = Absent

\* C11 witness: a caller max-age larger than the embedded max_age, a file
\* younger than the caller max-age and older than the embedded one, absent.
TwoGatesWitness ==
    /\ last.op = "get_match_dict"
    /\ SavedEntry(MatchDictFile(last.match_id))
    /\ last.cache_duration # PyNone
    /\ LET path == MatchDictFile(last.match_id)
       IN  /\ Item(Stored(path), "duration") # PyNone
           /\ last.cache_duration.val > Item(Stored(path), "duration").val
           /\ Age(path) < last.cache_duration.val
           /\ Age(path) > Item(Stored(path), "duration").val
    /\ last.ret = Absent

-----------------------------------------------------------------------------
\* C12: a get with a caller max-age of zero returns absent whatever file
\* exists at the key, in every reachable state; zero is not taken for an
\* absent max-age.
ZeroMaxAge ==
    (last.op = "get_match_dict" /\ last.cache_duration = Timedelta(0))
    => last.ret = Absent

\* C12 witness: the get with max-age zero returned absent in a state where
\* the get with no max-age returns the stored payload.
ZeroMaxAgeWitness ==
    /\ last.op = "get_match_dict"
    /\ last.cache_duration = Timedelta(0)
    /\ last.ret = Absent
    /\ SavedEntry(MatchDictFile(last.match_id))
    /\ Age(MatchDictFile(last.match_id)) = 0
    /\ Returned(get_match_dict(last.match_id, PyNone))

-----------------------------------------------------------------------------
\* C13: with no caller max-age, an entry save wrote that records no max_age
\* is returned by get (its payload), however old its file is.
CacheForever ==
    (/\ last.op = "get_match_dict"
     /\ last.cache_duration = PyNone
     /\ SavedEntry(MatchDictFile(last.match_id))
     /\ Item(Stored(MatchDictFile(last.match_id)), "duration") = PyNone)
    => last.ret = Return(Item(Stored(MatchDictFile(last.match_id)), "data"))

-----------------------------------------------------------------------------
\* C18: a save of P2 on a key whose last call was a save of P1 leaves one
\* file for the key, holding only the entry for P2 (nothing of P1, no second
\* version), and the get of the key then returns P2.
Overwrite ==
    [][\A m \in MatchIds, data \in MatchPayloads, d \in Durations, u \in Urls :
           (/\ last.op = "save_match_dict"
            /\ last.match_id = m
            /\ SaveMatchDict(m, data, d, u))
           => /\ DOMAIN files' = DOMAIN files
              /\ files'[MatchDictFile(m)].content = JsonDump(Envelope(data, d, u))
              /\ get_match_dict(m, PyNone)' = Return(data)]_vars

-----------------------------------------------------------------------------
\* C19: every file save writes is a mapping with exactly the four fields
\* data, timestamp, duration and source_url, with timestamp the time of the
\* save; it is never of the bare-payload format, so a payload that a get
\* returns from it is its `data` field, never the whole file.
EnvelopeInvariant ==
    /\ last.op = "save_match_dict"
           => LET path == MatchDictFile(last.match_id)
              IN  /\ SavedEntry(path)
                  /\ Item(Stored(path), "timestamp") = PyInt(now)
                  /\ Item(Stored(path), "data") = JsonLoad(JsonDump(last.data))
                  /\ ~IsLegacy(Stored(path))
    /\ (GetAfterSave /\ Returned(last.ret))
           => LET path == MatchDictFile(last.match_id)
              IN  /\ last.ret.val = Item(Stored(path), "data")
                  /\ last.ret.val # Stored(path)

\* C19 witness: a payload that is itself a mapping was saved at a later time
\* and read back from the `data` field of the envelope.
EnvelopeInvariantWitness ==
    /\ GetAfterSave
    /\ now > 0
    /\ IsDict(last.after.data)
    /\ SavedEntry(MatchDictFile(last.match_id))
    /\ Item(Stored(MatchDictFile(last.match_id)), "timestamp") = PyInt(now)
    /\ last.ret = Return(last.after.data)

-----------------------------------------------------------------------------
\* C20: a directory below the cache root exists only where a file was
\* written below it: gets and is_match_finished calls on keys never saved
\* leave the set of directories as it was.
LazyDirectories ==
    \A dir \in dirs :
        \E path \in DOMAIN files :
            Len(dir) < Len(path) /\ dir = SubSeq(path, 1, Len(dir))

-----------------------------------------------------------------------------
\* C14: a save whose directory creation, open or write fails raises that
\* error to its caller; a save that returns normally has written the entry.
WriteErrorsPropagate ==
    last.op = "save_match_dict"
    => LET path == MatchDictFile(last.match_id)
       IN  /\ last.fault # "none" => last.ret = Raise("OSError")
           /\ last.ret.kind = "return"
                  => /\ SavedEntry(path)
                     /\ files[path].mtime = now
                     /\ Item(Stored(path), "timestamp") = PyInt(now)
                     /\ Item(Stored(path), "data") = JsonLoad(JsonDump(last.data))

\* C14 witness: a save whose write failed raised and left a file that is not
\* the entry.
WriteErrorsPropagateWitness ==
    /\ last.op = "save_match_dict"
    /\ last.fault = "write"
    /\ last.ret = Raise("OSError")
    /\ ~SavedEntry(MatchDictFile(last.match_id))

-----------------------------------------------------------------------------
\* C15: a get that meets a failing filesystem operation (the directory
\* creation of the path resolution, the existence/stat check, open or read)
\* returns absent and raises nothing.
ReadErrorsAbsent ==
    (last.op = "get_match_dict" /\ last.fault # "none") => last.ret = Absent

-----------------------------------------------------------------------------
\* C16: a get that runs while a save of the same key is between its open and
\* its close never sees a half-written file: it returns what a get returned
\* before the save began (the previous payload, or absent) or the payload
\* being saved.
AtomicVisibility ==
    \A c \in DOMAIN saving :
        (last.op = "get_match_dict" /\ last.match_id = saving[c].match_id)
        => last.ret \in {saving[c].before,
                         Return(JsonLoad(JsonDump(saving[c].data)))}

-----------------------------------------------------------------------------
\* C17: once every save of a key has completed, the file holds exactly the
\* complete envelope of the save that completed last, and a get returns
\* that save's payload.
LastWriterWins ==
    (last.op = "save_match_dict" /\ saving = <<>>)
    => /\ files[MatchDictFile(last.match_id)].content = last.text
       /\ get_match_dict(last.match_id, PyNone) = Return(last.data)

-----------------------------------------------------------------------------
\* C21: no cache operation deletes an entry file, and a get or an
\* is_match_finished (also one that finds the entry stale or undecodable and
\* returns absent) leaves the content and the modification time of every
\* entry file as they were.
NoEviction ==
    [][/\ DOMAIN files \subseteq DOMAIN files'
       /\ last'.op \in {"get_match_dict", "is_match_finished"}
              => files' = files]_vars

\* C21 witness: a get returned absent for a file that exists (stale by the
\* caller max-age, or no JSON document), and the file is there as written.
NoEvictionWitness ==
    /\ last.op = "get_match_dict"
    /\ last.ret = Absent
    /\ MatchDictFile(last.match_id) \in DOMAIN files
    /\ \/ ~IsJson(files[MatchDictFile(last.match_id)].content)
       \/ /\ last.cache_duration # PyNone
          /\ Age(MatchDictFile(last.match_id)) >= last.cache_duration.val
          /\ Age(MatchDictFile(last.match_id)) > 0

-----------------------------------------------------------------------------
\* a path as the filesystem reads it: empty components count for nothing
Normal(path) == SelectSeq(path, LAMBDA name : name # <<>>)

\* the last call handed a match_dicts key to the resolver
ResolvedPage ==
    /\ last.op = "_get_cache_path"
    /\ last.cache_type = <<"match_dicts">>

\* C22: for the match_dicts type and a key that splits on '/' into at least
\* three segments, the resolver returns
\* root/match_dicts/<segment 0>/<segment 1>/<segment 2>.json, and both
\* directory levels exist when it returns.
PaginatedResolution ==
    (ResolvedPage /\ Len(Split(last.key, "/")) >= 3)
    => LET parts == Split(last.key, "/")
       IN  /\ last.ret = Normal(<<<<"match_dicts">>, parts[1], parts[2],
                                  parts[3] \o <<".json">>>>)
           /\ Normal(<<<<"match_dicts">>, parts[1]>>) \in dirs
           /\ Normal(<<<<"match_dicts">>, parts[1], parts[2]>>) \in dirs

\* C22 witness: a key of three segments, none empty, was resolved to a file
\* two directories below the type directory.
PaginatedResolutionWitness ==
    /\ ResolvedPage
    /\ last.key = <<"39", "/", "39", "/", "39">>
    /\ last.ret = <<<<"match_dicts">>, <<"39">>, <<"39">>, <<"39", ".json">>>>
    /\ Cardinality(dirs) = 3

-----------------------------------------------------------------------------
\* the last call was a save or a get of a page under a year containing '/'
PageCallWithSlash ==
    /\ last.op \in {"save_match_dicts", "get_match_dicts"}
    /\ HasSlash(last.year)

-----------------------------------------------------------------------------
\* the call handed the resolver a match_dicts key of fewer than three segments
Malformed(call) ==
    /\ call.cache_type = <<"match_dicts">>
    /\ Len(Split(call.key, "/")) < 3

\* C24: for the match_dicts type and a key that splits into fewer than three
\* segments, the resolver returns the flat location
\* root/match_dicts/<key with every '/' replaced by '_'>.json (the type
\* directory exists), and a save followed by a get under that key returns
\* the payload saved.
MalformedPageKey ==
    /\ (last.op = "_get_cache_path" /\ Malformed(last))
           => /\ last.ret = <<<<"match_dicts">>,
                              Replace(last.key, "/", "_") \o <<".json">>>>
              /\ dirs = {<<<<"match_dicts">>>>}
    /\ (/\ last.op = "_get"
        /\ Malformed(last)
        /\ last.after.cache_type = last.cache_type
        /\ last.after.key = last.key)
           => /\ last.ret = Return(last.after.data)
              /\ DOMAIN files = {<<<<"match_dicts">>,
                                   Replace(last.key, "/", "_") \o <<".json">>>>}

\* C24 witness: a payload saved under the two-segment key 39/39 was read back
\* from match_dicts/39_39.json.
MalformedPageKeyWitness ==
    /\ last.op = "_get"
    /\ last.cache_type = <<"match_dicts">>
    /\ last.key = <<"39", "/", "39">>
    /\ last.after.cache_type = last.cache_type
    /\ last.after.key = last.key
    /\ last.ret = Return(last.after.data)
    /\ <<<<"match_dicts">>, <<"39", "_", "39", ".json">>>> \in DOMAIN files

-----------------------------------------------------------------------------
\* the last call was a Sofascore.get_match_dicts that went through pages
Paginated == last.op = "Sofascore.get_match_dicts" /\ last.steps # <<>>

\* C25: in Sofascore.get_match_dicts with caching on, when the cache returns
\* an empty list for page i the loop stops at page i, neither page i nor a
\* later page is requested, and the matches of pages 0..i-1 are returned;
\* when the cache returns absent for page i, page i is requested.
EndOfPagination ==
    Paginated
    => \A k \in DOMAIN last.steps :
           LET step == last.steps[k]
           IN  /\ step.page = k - 1
               /\ step.cached = PyList(<<>>)
                      => /\ k = Len(last.steps)
                         /\ ~step.fetched
                         /\ \A j \in DOMAIN last.steps :
                                last.steps[j].fetched => last.steps[j].page < step.page
                         /\ last.ret = Return(PyList(Matches(SubSeq(last.steps, 1, k - 1))))
               /\ step.cached = PyNone => step.fetched

\* C25 witness: page 0 came from the cache, the cache returned the empty
\* list for page 1, and the call returned the matches of page 0 with no
\* request.
EndOfPaginationWitness ==
    /\ Paginated
    /\ Len(last.steps) = 2
    /\ last.steps[1].cached = PageEvents(0)
    /\ last.steps[2].cached = PyList(<<>>)
    /\ \A k \in DOMAIN last.steps : ~last.steps[k].fetched
    /\ last.ret = Return(PageEvents(0))

-----------------------------------------------------------------------------
-----------------------------------------------------------------------------
\* {root}/match_stats/{match_id}.json
MatchStatsFile(match_id) == <<<<"match_stats">>, match_id \o <<".json">>>>

\* C27: scrape_team_match_stats writes to the match_stats cache only when
\* is_match_finished reports the match finished: no step writes a match_stats
\* file for a match that is_match_finished does not report finished.
StatsOnlyFinished ==
    [][\A m \in MatchIds :
           (/\ MatchStatsFile(m) \in DOMAIN files'
            /\ MatchStatsFile(m) \in DOMAIN files
                   => files'[MatchStatsFile(m)] # files[MatchStatsFile(m)])
           => is_match_finished(m)' = Return(PyBool(TRUE))]_vars

-----------------------------------------------------------------------------
\* {root}/match_odds/{match_id}.json
MatchOddsFile(match_id) == <<<<"match_odds">>, match_id \o <<".json">>>>

\* the step is a scrape_match_odds of m that finds odds of m in the cache
OddsCached(m) ==
    /\ last'.op = "Sofascore.scrape_match_odds"
    /\ last'.match_id = m
    /\ MatchOddsFile(m) \in DOMAIN files

\* the step served the cached odds of m with no request
OddsServed(m) ==
    /\ ~last'.requested
    /\ last'.ret = Return(Item(Stored(MatchOddsFile(m)), "data"))
    /\ files' = files

\* C26 as stated: cached odds of a match that is_match_finished reports
\* finished are served at any age without a request; cached odds of a match
\* not reported finished are served only while they are less than 1 day
\* old, after which the odds are requested again.
OddsPolicyAnyAge ==
    [][\A m \in MatchIds :
           OddsCached(m)
           => IF last'.finished
              THEN OddsServed(m)
              ELSE /\ OddsServed(m) <=> Age(MatchOddsFile(m)) < 1
                   /\ ~OddsServed(m) => last'.requested]_vars

\* C26 (amended): cached odds of a match that is_match_finished reports
\* finished are served without a request at any age when they were saved
\* with no max_age (the match was reported finished at the save), and until
\* they are more than 1 day old when they were saved with the max_age of 1
\* day; cached odds of a match not reported finished are served only while
\* they are less than 1 day old; odds not served are requested again.
OddsPolicy ==
    [][\A m \in MatchIds :
           OddsCached(m)
           => /\ OddsServed(m)
                     <=> IF last'.finished
                         THEN ~EmbeddedExceeded(Stored(MatchOddsFile(m)))
                         ELSE Age(MatchOddsFile(m)) < 1
              /\ ~OddsServed(m) => last'.requested]_vars

\* C26 witness: odds saved with no max_age for a match reported finished
\* were served two days later with no request.
OddsPolicyWitness ==
    /\ last.op = "Sofascore.scrape_match_odds"
    /\ last.finished
    /\ ~last.requested
    /\ MatchOddsFile(last.match_id) \in DOMAIN files
    /\ Item(Stored(MatchOddsFile(last.match_id)), "duration") = PyNone
    /\ Age(MatchOddsFile(last.match_id)) >= 2
    /\ last.ret = Return(Item(Stored(MatchOddsFile(last.match_id)), "data"))

-----------------------------------------------------------------------------
\* the statuses botasaurus_get returns a response for
Accepted(answer) ==
    /\ ~answer.raised
    /\ answer.status_code = 404 \/ answer.status_code \in 200..299

\* C29: one call of botasaurus_get makes at most MAX_RETRIES (3) request
\* attempts; it returns the first response whose status is 404 or 2xx with
\* no further attempt; if no attempt yields such a response it raises after
\* exactly 3 attempts; it never returns a response with another status.
BoundedRetries ==
    last.op = "botasaurus_get"
    => /\ last.attempts \in 1..MAX_RETRIES
       /\ last.attempts <= 3
       /\ \A n \in 1..MAX_RETRIES :
              (Accepted(last.answers[n])
                   /\ \A i \in 1..(n - 1) : ~Accepted(last.answers[i]))
              => /\ last.ret.kind = "return"
                 /\ last.ret.val = last.answers[n]
                 /\ last.attempts = n
       /\ (\A i \in 1..MAX_RETRIES : ~Accepted(last.answers[i]))
              => /\ last.ret.kind = "raise"
                 /\ last.attempts = 3
       /\ last.ret.kind = "return" => Accepted(last.ret.val)

\* C29 witness: an unproxied call met a status 500 and two exceptions, and
\* raised after its third attempt.
BoundedRetriesWitness ==
    /\ last.op = "botasaurus_get"
    /\ ~last.use_proxy
    /\ last.answers = <<Resp(500), Raised(TRUE), Raised(FALSE)>>
    /\ last.attempts = 3
    /\ last.ret.kind = "raise"

\* the lockout is in force
InLockout == unproxied_lockout_until # None /\ now < unproxied_lockout_until

\* C30: once an unproxied request is attempted UNPROXIED_MAX_WINDOW hours
\* or more after the first unproxied request of the window, that call and
\* every call made before unproxied_lockout_until go through the proxy; at
\* the first call at or after that time the lockout and the window start
\* are reset and the call is unproxied again unless chance picks the proxy.
ProxyLockout ==
    [][last'.op = "botasaurus_get"
       => /\ (/\ unproxied_lockout_until = None
              /\ unproxied_start_time # None
              /\ ~last'.random_proxy
              /\ now - unproxied_start_time >= UNPROXIED_MAX_WINDOW)
             => /\ last'.use_proxy
                /\ unproxied_lockout_until' = now + UNPROXIED_LOCKOUT_WINDOW
          /\ InLockout
             => /\ last'.use_proxy
                /\ UNCHANGED tracking
          /\ (unproxied_lockout_until # None /\ now >= unproxied_lockout_until)
             => /\ unproxied_lockout_until' = None
                /\ unproxied_start_time'
                       = IF last'.random_proxy THEN None ELSE now
                /\ last'.use_proxy = last'.random_proxy]_vars

\* C30 witness: the first call after a lockout reset it and was unproxied.
ProxyLockoutWitness ==
    /\ last.op = "botasaurus_get"
    /\ last.reset
    /\ ~last.use_proxy
    /\ unproxied_lockout_until = None
    /\ unproxied_start_time = now

-----------------------------------------------------------------------------
\* C31: within one resource type, distinct keys (for match_dicts, distinct
\* (league, year, page) triples) resolve to distinct cache files, so a save
\* under one key never changes what get returns for a different key.
KeyIsolation ==
    [][last'.op = "save_match_dicts"
       => \A l \in Leagues, y \in SeasonYears, p \in Pages :
              <<l, y, p>> # <<last'.league, last'.year, last'.page>>
              => /\ _get_cache_path(<<"match_dicts">>, MatchDictsKey(l, y, p)).path
                        # _get_cache_path(<<"match_dicts">>,
                                          MatchDictsKey(last'.league, last'.year,
                                                        last'.page)).path
                 /\ get_match_dicts(l, y, p, PyNone)'
                        = get_match_dicts(l, y, p, PyNone)]_vars

-----------------------------------------------------------------------------
\* C32: a save that fails part-way leaves the entry stored under its key
\* unchanged, and a following get still returns the previous payload.
FailedSaveKeepsEntry ==
    [][\A m \in MatchIds :
           (/\ SavedEntry(MatchDictFile(m))
            /\ last'.op = "save_match_dict"
            /\ last'.match_id = m
            /\ last'.ret.kind = "raise")
           => /\ files'[MatchDictFile(m)] = files[MatchDictFile(m)]
              /\ get_match_dict(m, PyNone)' = get_match_dict(m, PyNone)]_vars

-----------------------------------------------------------------------------
\* the filesystem, walking a path relative to the cache root, steps above the
\* root: `depth` is the number of directories it is below the root
RECURSIVE Escapes(_, _)
Escapes(path, depth) ==
    IF path = <<>>
    THEN FALSE
    ELSE IF Head(path) = <<"..">>
         THEN depth = 0 \/ Escapes(Tail(path), depth - 1)
         ELSE Escapes(Tail(path), depth + 1)

\* the path lies inside the cache root
Inside(path) == ~Escapes(path, 0)

\* C33: every path the resolver returns, for every resource type and every
\* key (keys, leagues or years equal to '..' or empty included), lies inside
\* the cache root directory, and save writes no file outside the root.
Containment ==
    /\ last.op = "_get_cache_path" => Inside(last.ret)
    /\ \A path \in DOMAIN files : Inside(path)
    /\ \A dir \in dirs : Inside(dir)

-----------------------------------------------------------------------------
\* the client goes on calling: each of the four operations is called again
\* and again
KeepsCalling ==
    /\ []<>(last.op = "Sofascore.get_match_dict")
    /\ []<>(last.op = "Sofascore.scrape_team_match_stats")
    /\ []<>(last.op = "Sofascore.scrape_match_odds")
    /\ []<>(last.op = "is_match_finished")

\* C34: if the payload of a match is first cached while the match is not
\* finished, and the match later becomes finished at the remote API, then
\* after further get_match_dict / scrape_team_match_stats /
\* scrape_match_odds calls with caching on, is_match_finished eventually
\* returns true.
FinishingObserved ==
    KeepsCalling
    => \A m \in MatchIds :
           (/\ SavedEntry(MatchDictFile(m))
            /\ Item(Stored(MatchDictFile(m)), "data") = InProgress
            /\ now >= MatchEnds)
           ~> (/\ last.op = "is_match_finished"
               /\ last.match_id = m
               /\ last.ret = Return(PyBool(TRUE)))

-----------------------------------------------------------------------------
\* what get_match_dicts returns or raises when every page is fetched from
\* the network
Uncached ==
    LET pages == PaginateUncached(remote, 0)
    IN  IF pages.raised
        THEN Raise("Exception")
        ELSE Return(PyList(Matches(pages.steps)))

\* C35: with the remote API's responses unchanged, get_match_dicts returns
\* the same list of matches when its pages are served from a cache filled by
\* an earlier call as when every page is fetched from the network.
CachedAgrees ==
    last.op = "Sofascore.get_match_dicts" => last.ret = Uncached

-----------------------------------------------------------------------------
\* the step leaves the file at path as it is
SameFile(path) ==
    /\ path \in DOMAIN files' <=> path \in DOMAIN files
    /\ path \in DOMAIN files => files'[path] = files[path]

\* the files of a resource type
FilesOf(fs, cache_type) == {path \in DOMAIN fs : path[1] = cache_type}

\* C36: a Sofascore operation called with use_cache=False (get_match_dict,
\* get_match_dicts, scrape_team_match_stats, scrape_match_odds) asks the
\* API and neither reads nor writes an entry of its own resource type: the
\* entries of that type are the same after the call as before, whatever the
\* HTTP status.
BypassesCache ==
    [][/\ last'.op = "Sofascore.get_match_dict(use_cache=False)"
           => last'.requested /\ SameFile(MatchDictFile(last'.match_id))
       /\ last'.op = "Sofascore.scrape_team_match_stats(use_cache=False)"
           => SameFile(MatchStatsFile(last'.match_id))
       /\ last'.op = "Sofascore.scrape_match_odds(use_cache=False)"
           => last'.requested /\ SameFile(MatchOddsFile(last'.match_id))
       /\ last'.op = "Sofascore.get_match_dicts(use_cache=False)"
           => /\ FilesOf(files', <<"match_dicts">>) = FilesOf(files, <<"match_dicts">>)
              /\ \A path \in FilesOf(files, <<"match_dicts">>) : SameFile(path)]_vars

-----------------------------------------------------------------------------
\* C37: once the remote API answers some page with 404 or with a status
\* other than 200, the loop of Sofascore.get_match_dicts ends and returns
\* the matches accumulated so far; every iteration either stops the loop or
\* moves on to page i+1, and no page is requested twice in one call.
PaginationTerminates ==
    Paginated
    => /\ \A k \in DOMAIN last.steps : last.steps[k].page = k - 1
       /\ \A j, k \in DOMAIN last.steps :
              (last.steps[j].fetched /\ last.steps[k].fetched /\ j # k)
              => last.steps[j].page # last.steps[k].page
       /\ last.ret = Return(PyList(Matches(last.steps)))

-----------------------------------------------------------------------------
\* the entry at path exists and fails a gate of a get with caller max-age d:
\* the file is too old for d, or the envelope is older than its own duration
Stale(path, d) ==
    /\ path \in DOMAIN files
    /\ \/ ~_is_cache_valid(path, d)
       \/ /\ SavedEntry(path)
          /\ Item(Stored(path), "duration") # PyNone
          /\ Expired(Stored(path))

\* C38: with no write to the files in between, a clock that does not go
\* back and a fixed caller max-age, once get_match_dict returns absent
\* because the entry is stale (by either gate) it returns absent at every
\* later time: a stale entry stays stale and is never served again before
\* a save.
StalenessStable ==
    [][\A m \in MatchIds, d \in MaxAges :
           (/\ Stale(MatchDictFile(m), d)
            /\ get_match_dict(m, d) = Absent
            /\ files' = files
            /\ now' >= now)
           => /\ Stale(MatchDictFile(m), d)'
              /\ get_match_dict(m, d)' = Absent]_vars

\* C38 witness: a get returned absent for a saved entry two units of time
\* old that fails a gate (its file as old as the caller max-age or older, or
\* its envelope past its own duration).
StalenessStableWitness ==
    /\ last.op = "get_match_dict"
    /\ last.ret = Absent
    /\ SavedEntry(MatchDictFile(last.match_id))
    /\ Stale(MatchDictFile(last.match_id), last.cache_duration)
    /\ Age(MatchDictFile(last.match_id)) >= 2

-----------------------------------------------------------------------------
\* C39: when no PROXY_ENDPOINT is configured, every call of botasaurus_get,
\* at any time, sends its requests unproxied: no call takes the proxied
\* branch.
ProxyOnlyWhenConfigured ==
    last.op = "botasaurus_get" => ~last.use_proxy

====
